---------------------------- MODULE Spec2Model ----------------------------
(***************************************************************************)
(* Model of the offline synchronisation utility neptune/alpha/sync.py:     *)
(* the per-run operation queue and sync offset kept in a run directory,    *)
(* sync_experiment replaying unacknowledged operations to the backend,     *)
(* is_experiment_synced, and the registration of offline runs.             *)
(***************************************************************************)
EXTENDS Integers, Sequences, FiniteSets, TLC

(***************************************************************************)
(* Bounds of the model.                                                    *)
(***************************************************************************)
\* highest operation version a producer assigns
MaxVersion == 4
\* records read per DiskQueue.get_batch call (the code passes 1000)
BatchSize == 2
\* offline run directories that exist at the start
NumOffline == 2
\* run identities the backend can allocate
NumServerIds == 3
\* longest list of offline ids handed to register_offline_experiments
MaxIds == 2
\* distinct operation payloads a producer can log
NumPayloads == 1

(***************************************************************************)
(* Values.                                                                 *)
(***************************************************************************)
\* Python's None: absent offset file content, no experiment
None == -1

Versions == 1..MaxVersion
OfflineIds == 1..NumOffline
ServerIds == 1..NumServerIds

\* a directory that does not exist
Absent == [exists |-> FALSE]

\* base_path / OFFLINE_DIRECTORY / offline_uuid
OfflinePath(u) == <<"offline", u>>
\* base_path / server_uuid
RegisteredPath(s) == <<"registered", s>>

\* a directory or reference name that is not the text of a UUID
NotUuid == 0
\* the name "offline" of the directory that holds the offline runs
OFFLINE_DIRECTORY == NotUuid

Paths ==
    {OfflinePath(u) : u \in OfflineIds \cup {NotUuid}}
        \cup {RegisteredPath(s) : s \in ServerIds \cup {OFFLINE_DIRECTORY}}

\* "org/project/SHORT-ID" of the run the backend knows as s
get_qualified_name(s) == <<"qualified", s>>

\* uuid.UUID(val) parses: val is the name of an offline or of a server run
is_valid_uuid(val) == val[1] \in {"offline", "registered"} /\ val[2] # NotUuid

Payloads == 1..NumPayloads

\* a VersionedOperation; op is the payload handed to the backend
Operation(v, o) == [version |-> v, op |-> o]

\* the falsy value DiskQueue.get() returns at the end of the queue
NoOperation == [version |-> None, op |-> None]

\* no exception
NoException == [type |-> "none"]

\* a run directory: the content of its disk queue and of its sync offset
\* file; run names the run whose data this is
RunDirectory(r, q, o) == [exists |-> TRUE, run |-> r, queue |-> q, offset |-> o]

Min(a, b) == IF a < b THEN a ELSE b

VARIABLES
    fs,           \* the tracking directory: Paths -> run directory or Absent
    pc,           \* position of the sync utility process
    path,         \* sync_experiment: path of the run directory being synced
    cursor,       \* sync_experiment: read position of its DiskQueue
    sync_offset,  \* sync_experiment: local variable sync_offset
    batch,        \* sync_experiment: local variable batch
    applied,      \* backend: server uuid -> versions executed successfully
    unconfirmed,  \* server uuid -> versions executed in a call whose offset
                  \* write was cut off by a crash and not made up for yet
    stalled,      \* the pending execute_operations call gets no response
    passCalls,    \* execute_operations calls of the current sync pass
    passStart,    \* persisted offset read when the current pass started
    passWrites,   \* offsets written by the current pass, in order
    lastEnd,      \* how the latest sync pass ended
    prevEnd,      \* how the pass before the latest one ended
    synced,       \* result of the latest is_experiment_synced call
    ids,          \* register_offline_experiments: offline_experiments_ids
    idx,          \* register_offline_experiments: loop position in ids
    experiment,   \* register_offline_experiments: local variable experiment
    result,       \* register_offline_experiments: local variable result
    created,      \* backend: run identities allocated by create_experiment
    createCalls,  \* create_experiment calls of this invocation per offline id
    renames,      \* rename attempts of this invocation per offline id
    uncaught,     \* the exception that ended the invocation, or None
    stderr,       \* messages printed to stderr by this invocation
    mode,         \* the entry point that is running, "none" outside of main
    project,      \* the Project get_project returned, or None
    experiment_names,        \* sync_selected_experiments: the references given
    other_experiment_names,  \* sync_selected_experiments: the registered ones
    targets,      \* the sequence the synchronisation loop iterates over
    tidx,         \* position of the synchronisation loop in targets
    looked,       \* local variable experiment of the loop: get_experiment's result
    lookups,      \* get_experiment calls made by this invocation
    synced_experiment_uuids,    \* partition_experiments: local list
    unsynced_experiment_uuids,  \* partition_experiments: local list
    synced_experiments,         \* partition_experiments: first result
    unsynced_experiments,       \* partition_experiments: second result
    offline_experiment_ids,     \* the offline ids an entry point works on
    experiment_path,            \* the run directory the loop has in hand
    moved,        \* offline id -> the directory as it was when it was renamed
    project_name_flag,  \* main: args.project
    env_project,  \* os.getenv(PROJECT_ENV_NAME)
    exit_code,    \* exit status of the invocation, None while it runs
    step,         \* NewClientFeatures: position of the client script
    enqueued,     \* the run's operation processor: operations enqueued so far
    consumed,     \* the run's operation processor: operations applied so far
    inflight,     \* the run's operation processor: operations sent, not applied yet
    attrs,        \* backend: the attributes of the client script's run
    got,          \* NewClientFeatures: what the get() calls returned
    call,         \* the attribute method call under test and its arguments
    processor,    \* enqueue_operation calls received by the mock processor
    raised,       \* the exception the attribute method call raised
    worker,       \* the worker process whose locals pc and syncVars hold
    other,        \* the locals of the worker process that is not running
    init_args,    \* Run.__init__: its arguments and the environment
    new_run       \* Run.__init__: the object under construction

syncVars == <<path, cursor, sync_offset, batch, passCalls, passStart, passWrites,
              lastEnd, prevEnd>>
regVars == <<ids, idx, experiment, result, created, createCalls, renames,
             uncaught, stderr>>
cliVars == <<mode, project, experiment_names, other_experiment_names, targets,
             tidx, looked, lookups, synced_experiment_uuids,
             unsynced_experiment_uuids, synced_experiments, unsynced_experiments,
             offline_experiment_ids, experiment_path, moved>>
mainVars == <<project_name_flag, env_project, exit_code>>
clientVars == <<step, enqueued, consumed, inflight, attrs, got, call, processor, raised>>
workerVars == <<worker, other>>
runVars == <<init_args, new_run>>
ackVars == <<unconfirmed, stalled>>
vars == <<fs, pc, applied, ackVars, synced, syncVars, regVars, cliVars, mainVars,
          clientVars, workerVars, runVars>>

(***************************************************************************)
(* DiskQueue and SyncOffsetFile.                                           *)
(***************************************************************************)
\* DiskQueue.get_batch(size) of a queue object whose read position is c
get_batch(q, c, size) == SubSeq(q, c + 1, Min(c + size, Len(q)))

\* DiskQueue.get() of a queue object whose read position is c
get(q, c) == IF c < Len(q) THEN q[c + 1] ELSE NoOperation

\* SyncOffsetFile.read()
SyncOffsetFile_read(dir) == dir.offset

\* SyncOffsetFile.write(offset): one replace of the persisted value
SyncOffsetFile_write(dir, v) == [dir EXCEPT !.offset = v]

\* SyncOffsetFile.write(offset) of a value below the persisted one: the
\* store is allowed to reject it instead of replacing the value
SyncOffsetFile_rejects(dir, v) == dir.offset # None /\ v < dir.offset

\* DiskQueue.put(operation): append at the tail
put(dir, operation) == [dir EXCEPT !.queue = Append(@, operation)]

LastVersion(q) == IF q = <<>> THEN 0 ELSE q[Len(q)].version

\* the producer of a run appends an operation with a greater version
Enqueue(p) ==
    /\ fs[p].exists
    /\ \E v \in Versions, o \in Payloads :
        /\ v > LastVersion(fs[p].queue)
        /\ fs' = [fs EXCEPT ![p] = put(@, Operation(v, o))]
    /\ UNCHANGED <<pc, applied, ackVars, synced, syncVars, regVars, cliVars, mainVars, clientVars, workerVars, runVars>>

(***************************************************************************)
(* is_experiment_synced                                                    *)
(***************************************************************************)
\* the loop of lines 174-179: the last operation disk_queue.get() returns
RECURSIVE LastOperation(_, _, _)
LastOperation(q, c, previous_operation) ==
    LET operation == get(q, c)
    IN IF operation = NoOperation
       THEN previous_operation
       ELSE LastOperation(q, c + 1, operation)

\* the comparison of line 183 made strict
is_experiment_synced_Strict(dir) ==
    LET offset == SyncOffsetFile_read(dir)
        previous_operation == LastOperation(dir.queue, 0, NoOperation)
    IN IF offset = None THEN FALSE
       ELSE IF previous_operation = NoOperation THEN TRUE
       ELSE offset > previous_operation.version

is_experiment_synced(dir) ==
    LET offset == SyncOffsetFile_read(dir)
        previous_operation == LastOperation(dir.queue, 0, NoOperation)
    IN IF offset = None THEN FALSE
       ELSE IF previous_operation = NoOperation THEN TRUE
       ELSE offset >= previous_operation.version

\* a check whose reads take the records off the queue
CheckSynced_Consume(p) ==
    /\ pc = "idle"
    /\ fs[p].exists
    /\ synced' = [checked |-> TRUE, path |-> p, value |-> is_experiment_synced(fs[p])]
    /\ fs' = [fs EXCEPT ![p].queue = <<>>]
    /\ UNCHANGED <<pc, applied, ackVars, syncVars, regVars, cliVars, mainVars, clientVars, workerVars, runVars>>

\* a caller evaluates is_experiment_synced on a run directory
CheckSynced(p) ==
    /\ pc = "idle"
    /\ fs[p].exists
    /\ synced' = [checked |-> TRUE, path |-> p, value |-> is_experiment_synced(fs[p])]
    /\ UNCHANGED <<fs, pc, applied, ackVars, syncVars, regVars, cliVars, mainVars, clientVars, workerVars, runVars>>

(***************************************************************************)
(* sync_experiment                                                         *)
(***************************************************************************)
\* a pass that ignores the persisted offset and starts from 0
ReadOrZero_Ignore(dir) == 0

\* sync_offset_file.read() or 0
ReadOrZero(dir) ==
    IF SyncOffsetFile_read(dir) = None THEN 0 ELSE SyncOffsetFile_read(dir)

\* lines 254-261 reading the offset file of the first run whatever the path
sync_experiment_SharedOffset(p) ==
    /\ pc' = "sync_loop"
    /\ path' = p
    /\ cursor' = 0
    /\ sync_offset' = ReadOrZero(fs[RegisteredPath(1)])
    /\ batch' = <<>>
    /\ passCalls' = <<>>
    /\ passWrites' = <<>>
    /\ passStart' = fs[p].offset
    /\ prevEnd' = lastEnd
    /\ lastEnd' = "running"
    /\ uncaught' = NoException
    /\ UNCHANGED <<fs, applied, ackVars, synced, ids, idx, experiment, result, created,
                   createCalls, renames, stderr>>

\* lines 254-261: open the queue and read the offset
sync_experiment(p) ==
    /\ pc' = "sync_loop"
    /\ path' = p
    /\ cursor' = 0
    /\ sync_offset' = ReadOrZero(fs[p])
    /\ batch' = <<>>
    /\ passCalls' = <<>>
    /\ passWrites' = <<>>
    /\ passStart' = fs[p].offset
    /\ prevEnd' = lastEnd
    /\ lastEnd' = "running"
    /\ uncaught' = NoException
    /\ UNCHANGED <<fs, applied, ackVars, synced, ids, idx, experiment, result, created,
                   createCalls, renames, stderr>>

\* sync_experiment is called on the run directory p
SyncStart(p) ==
    /\ pc = "idle"
    /\ p[1] = "registered"
    /\ fs[p].exists
    /\ sync_experiment(p)
    /\ UNCHANGED <<cliVars, mainVars, clientVars, workerVars, runVars>>

\* lines 273-276: the first index of b whose version exceeds the offset
FirstAbove(b, offset) ==
    CHOOSE i \in 1..Len(b) :
        /\ b[i].version > offset
        /\ \A j \in 1..(i - 1) : b[j].version <= offset

\* the filter without the continue of line 271
FilterBatch_NoSkip(b, offset) ==
    IF b[1].version > offset \/ b[Len(b)].version <= offset
    THEN [skip |-> FALSE, batch |-> b]
    ELSE [skip |-> FALSE, batch |-> SubSeq(b, FirstAbove(b, offset), Len(b))]

\* the filter without the slicing of lines 273-276
FilterBatch_NoTrim(b, offset) ==
    IF b[Len(b)].version <= offset
    THEN [skip |-> TRUE, batch |-> b]
    ELSE [skip |-> FALSE, batch |-> b]

\* lines 268-276: "skip" is the continue of line 271, otherwise the batch
\* that reaches execute_operations
FilterBatch(b, offset) ==
    IF b[1].version > offset
    THEN [skip |-> FALSE, batch |-> b]
    ELSE IF b[Len(b)].version <= offset
         THEN [skip |-> TRUE, batch |-> b]
         ELSE [skip |-> FALSE, batch |-> SubSeq(b, FirstAbove(b, offset), Len(b))]

\* the continue of line 271 taken without the batch having been consumed
SyncLoop_NoAdvance ==
    /\ pc = "sync_loop"
    /\ LET b == get_batch(fs[path].queue, cursor, BatchSize)
       IN /\ IF b = <<>>
             THEN /\ pc' = IF mode = "none" THEN "idle" ELSE "after_sync"
                  /\ lastEnd' = "completed"
                  /\ batch' = b
                  /\ cursor' = cursor
             ELSE LET f == FilterBatch(b, sync_offset)
                  IN /\ pc' = IF f.skip THEN "sync_loop" ELSE "sync_execute"
                     /\ batch' = f.batch
                     /\ lastEnd' = lastEnd
                     /\ cursor' = IF f.skip THEN cursor ELSE cursor + Len(b)
    /\ UNCHANGED <<fs, applied, ackVars, synced, path, sync_offset, passCalls, passStart,
                   passWrites, prevEnd, regVars, cliVars, mainVars, clientVars, workerVars, runVars>>

\* lines 263-276: read the next batch; return on an empty one, continue on
\* an acknowledged one, otherwise go on to execute_operations
SyncLoop ==
    /\ pc = "sync_loop"
    /\ LET b == get_batch(fs[path].queue, cursor, BatchSize)
       IN /\ cursor' = cursor + Len(b)
          /\ IF b = <<>>
             THEN /\ pc' = IF mode = "none" THEN "idle" ELSE "after_sync"
                  /\ lastEnd' = "completed"
                  /\ batch' = b
             ELSE LET f == FilterBatch(b, sync_offset)
                  IN /\ pc' = IF f.skip THEN "sync_loop" ELSE "sync_execute"
                     /\ batch' = f.batch
                     /\ lastEnd' = lastEnd
    /\ UNCHANGED <<fs, applied, ackVars, synced, path, sync_offset, passCalls, passStart,
                   passWrites, prevEnd, regVars, cliVars, mainVars, clientVars, workerVars, runVars>>

Versions_of(b) == [i \in 1..Len(b) |-> b[i].version]
Ops_of(b) == [i \in 1..Len(b) |-> b[i].op]

\* the record of one backend.execute_operations call
Call(ok) ==
    [uuid |-> path[2], versions |-> Versions_of(batch), ops |-> Ops_of(batch),
     persisted |-> fs[path].offset, ok |-> ok]

\* line 277: backend.execute_operations returns
ExecuteOperationsOk ==
    /\ pc = "sync_execute"
    /\ ~stalled
    /\ applied' = [applied EXCEPT ![path[2]] = @ \cup {batch[i].version : i \in 1..Len(batch)}]
    /\ passCalls' = Append(passCalls, Call(TRUE))
    /\ pc' = "sync_write"
    /\ UNCHANGED <<fs, ackVars, synced, path, cursor, sync_offset, batch, passStart,
                   passWrites, lastEnd, prevEnd, regVars, cliVars, mainVars, clientVars, workerVars, runVars>>

\* the exception is swallowed and the offset is written all the same
ExecuteOperationsFail_Swallow ==
    /\ pc = "sync_execute"
    /\ passCalls' = Append(passCalls, Call(FALSE))
    /\ pc' = "sync_write"
    /\ UNCHANGED <<fs, applied, ackVars, synced, path, cursor, sync_offset, batch,
                   passStart, passWrites, lastEnd, prevEnd, regVars, cliVars, mainVars, clientVars, workerVars, runVars>>

\* the exception is swallowed and the loop goes on to the next batch
ExecuteOperationsFail_Continue ==
    /\ pc = "sync_execute"
    /\ passCalls' = Append(passCalls, Call(FALSE))
    /\ pc' = "sync_loop"
    /\ UNCHANGED <<fs, applied, ackVars, synced, path, cursor, sync_offset, batch,
                   passStart, passWrites, lastEnd, prevEnd, regVars, cliVars, mainVars, clientVars, workerVars, runVars>>

\* the failed batch is sent again
ExecuteOperationsFail_Retry ==
    /\ pc = "sync_execute"
    /\ passCalls' = Append(passCalls, Call(FALSE))
    /\ pc' = "sync_execute"
    /\ UNCHANGED <<fs, applied, ackVars, synced, path, cursor, sync_offset, batch,
                   passStart, passWrites, lastEnd, prevEnd, regVars, cliVars, mainVars, clientVars, workerVars, runVars>>

\* the exception is swallowed and the same call is made again
ExecuteOperationsFail_RetryQuietly ==
    /\ pc = "sync_execute"
    /\ UNCHANGED vars

\* line 277: backend.execute_operations raises, on an error response or on
\* the timeout of a call that got no response; nothing catches it
ExecuteOperationsFail ==
    /\ pc = "sync_execute"
    /\ passCalls' = Append(passCalls, Call(FALSE))
    /\ pc' = "idle"
    /\ lastEnd' = "failed"
    /\ uncaught' = [type |-> "backend"]
    /\ stalled' = FALSE
    /\ UNCHANGED <<fs, applied, unconfirmed, synced, path, cursor, sync_offset, batch,
                   passStart, passWrites, prevEnd, ids, idx, experiment, result,
                   created, createCalls, renames, stderr, cliVars, mainVars, clientVars, workerVars, runVars>>

\* the version of the first record of the batch is persisted
SyncWrite_First ==
    /\ pc = "sync_write"
    /\ fs' = [fs EXCEPT ![path] = SyncOffsetFile_write(@, batch[1].version)]
    /\ sync_offset' = batch[1].version
    /\ passWrites' = Append(passWrites, batch[1].version)
    /\ unconfirmed' = [unconfirmed EXCEPT ![path[2]] =
                          {v \in @ : v > batch[1].version}]
    /\ pc' = "sync_loop"
    /\ UNCHANGED <<applied, stalled, synced, path, cursor, batch, passCalls, passStart,
                   lastEnd, prevEnd, regVars, cliVars, mainVars, clientVars, workerVars, runVars>>

\* line 277: the backend does not answer the pending call
BackendStall ==
    /\ pc = "sync_execute"
    /\ ~stalled
    /\ stalled' = TRUE
    /\ UNCHANGED <<fs, pc, applied, unconfirmed, synced, syncVars, regVars, cliVars, mainVars, clientVars, workerVars, runVars>>

\* lines 278-279: persist the new offset; a store that rejects a value
\* below the persisted one raises, and nothing catches it
SyncWrite ==
    /\ pc = "sync_write"
    /\ \/ /\ fs' = [fs EXCEPT ![path] =
                        SyncOffsetFile_write(@, batch[Len(batch)].version)]
          /\ sync_offset' = batch[Len(batch)].version
          /\ passWrites' = Append(passWrites, batch[Len(batch)].version)
          /\ unconfirmed' = [unconfirmed EXCEPT ![path[2]] =
                                {v \in @ : v > batch[Len(batch)].version}]
          /\ pc' = "sync_loop"
          /\ UNCHANGED <<lastEnd, stalled, regVars, cliVars, mainVars, clientVars, workerVars, runVars>>
       \/ /\ SyncOffsetFile_rejects(fs[path], batch[Len(batch)].version)
          /\ pc' = "idle"
          /\ lastEnd' = "rejected"
          /\ uncaught' = [type |-> "offset"]
          /\ UNCHANGED <<fs, sync_offset, passWrites, ackVars, ids, idx,
                         experiment, result, created, createCalls, renames,
                         stderr, cliVars, mainVars, clientVars, workerVars, runVars>>
    /\ UNCHANGED <<applied, synced, path, cursor, batch, passCalls, passStart,
                   prevEnd>>

\* the locals of the worker process that is running
Locals ==
    [pc |-> pc, path |-> path, cursor |-> cursor, sync_offset |-> sync_offset,
     batch |-> batch, passCalls |-> passCalls, passStart |-> passStart,
     passWrites |-> passWrites, lastEnd |-> lastEnd, prevEnd |-> prevEnd]

\* the number of worker processes, one per run
NumWorkers == 2

\* the scheduler takes the running worker off and runs the other one: each
\* worker is a process of its own with its own locals of sync_experiment
Switch ==
    /\ worker' = (worker % NumWorkers) + 1
    /\ other' = Locals
    /\ pc' = other.pc
    /\ path' = other.path
    /\ cursor' = other.cursor
    /\ sync_offset' = other.sync_offset
    /\ batch' = other.batch
    /\ passCalls' = other.passCalls
    /\ passStart' = other.passStart
    /\ passWrites' = other.passWrites
    /\ lastEnd' = other.lastEnd
    /\ prevEnd' = other.prevEnd
    /\ UNCHANGED <<fs, applied, ackVars, synced, regVars, cliVars, mainVars,
                   clientVars, runVars>>

\* the process dies in the middle of a sync pass
SyncCrash ==
    /\ pc \in {"sync_loop", "sync_execute", "sync_write"}
    /\ pc' = "idle"
    /\ lastEnd' = "crashed"
    /\ unconfirmed' =
         IF pc = "sync_write"
         THEN [unconfirmed EXCEPT ![path[2]] =
                 @ \cup {batch[i].version : i \in 1..Len(batch)}]
         ELSE unconfirmed
    /\ stalled' = FALSE
    /\ UNCHANGED <<fs, applied, synced, path, cursor, sync_offset, batch,
                   passCalls, passStart, passWrites, prevEnd, regVars, cliVars, mainVars, clientVars, workerVars, runVars>>

(***************************************************************************)
(* Registration of offline runs.                                           *)
(***************************************************************************)
\* get_offline_experiments_ids: the names found in the offline directory
get_offline_experiments_ids ==
    {p[2] : p \in {q \in Paths : q[1] = "offline" /\ fs[q].exists /\ is_valid_uuid(q)}}

\* the lists of offline ids a caller can pass: sync_all_experiments passes
\* the directory listing, sync_selected_experiments the references of the
\* command line that name an offline directory, repeated ones included
IdLists ==
    UNION {[1..n -> get_offline_experiments_ids] : n \in 1..MaxIds}

\* lines 317-320: register_offline_experiments is entered
register_offline_experiments(offline_experiments_ids) ==
    /\ ids' = offline_experiments_ids
    /\ idx' = 1
    /\ experiment' = None
    /\ result' = <<>>
    /\ createCalls' = [u \in OfflineIds |-> 0]
    /\ renames' = [u \in OfflineIds |-> 0]
    /\ uncaught' = NoException
    /\ stderr' = <<>>
    /\ pc' = "reg_create"
    /\ UNCHANGED <<fs, applied, ackVars, synced, syncVars, created>>

\* a caller enters register_offline_experiments with a list of offline ids
RegisterStart ==
    /\ pc = "idle"
    /\ \E l \in IdLists : register_offline_experiments(l)
    /\ UNCHANGED <<cliVars, mainVars, clientVars, workerVars, runVars>>

\* the function returns after the first offline id
RegisterReturn_Early ==
    /\ pc = "reg_create"
    /\ idx > 1
    /\ pc' = IF mode = "none" THEN "idle" ELSE "after_register"
    /\ UNCHANGED <<fs, applied, ackVars, synced, syncVars, regVars, cliVars, mainVars, clientVars, workerVars, runVars>>

\* lines 320, 325: the for loop is exhausted and the function returns
RegisterReturn ==
    /\ pc = "reg_create"
    /\ idx > Len(ids)
    /\ pc' = IF mode = "none" THEN "idle" ELSE "after_register"
    /\ UNCHANGED <<fs, applied, ackVars, synced, syncVars, regVars, cliVars, mainVars, clientVars, workerVars, runVars>>

\* lines 302-305: backend.create_experiment returns a new experiment
register_offline_experiment_ok ==
    /\ pc = "reg_create"
    /\ idx <= Len(ids)
    /\ \E s \in ServerIds \ created :
        /\ created' = created \cup {s}
        /\ experiment' = s
    /\ createCalls' = [createCalls EXCEPT ![ids[idx]] = @ + 1]
    /\ pc' = "reg_move"
    /\ UNCHANGED <<fs, applied, ackVars, synced, syncVars, ids, idx, result, renames,
                   uncaught, stderr, cliVars, mainVars, clientVars, workerVars, runVars>>

\* lines 306-310: backend.create_experiment raises; a message is printed
\* and None is returned
register_offline_experiment_fail ==
    /\ pc = "reg_create"
    /\ idx <= Len(ids)
    /\ experiment' = None
    /\ createCalls' = [createCalls EXCEPT ![ids[idx]] = @ + 1]
    /\ stderr' = Append(stderr, "create_experiment failed")
    /\ pc' = "reg_move"
    /\ UNCHANGED <<fs, applied, ackVars, synced, syncVars, ids, idx, result, created,
                   renames, uncaught, cliVars, mainVars, clientVars, workerVars, runVars>>

\* line 322: experiment.uuid is evaluated on None: AttributeError, which
\* nothing catches
MoveArgumentError ==
    /\ pc = "reg_move"
    /\ experiment = None
    /\ uncaught' = [type |-> "AttributeError"]
    /\ pc' = "idle"
    /\ UNCHANGED <<fs, applied, ackVars, synced, syncVars, ids, idx, experiment, result,
                   created, createCalls, renames, stderr, cliVars, mainVars, clientVars, workerVars, runVars>>

\* a move made of a copy, the source left in place
move_offline_experiment_Copy(offline_uuid, server_uuid) ==
    [fs EXCEPT ![RegisteredPath(server_uuid)] = fs[OfflinePath(offline_uuid)]]

\* a move that leaves the sync offset file behind
move_offline_experiment_DropOffset(offline_uuid, server_uuid) ==
    [fs EXCEPT ![OfflinePath(offline_uuid)] = Absent,
               ![RegisteredPath(server_uuid)] =
                    [fs[OfflinePath(offline_uuid)] EXCEPT !.offset = None]]

\* lines 313-314: Path.rename of the offline directory to the server uuid
move_offline_experiment(offline_uuid, server_uuid) ==
    [fs EXCEPT ![OfflinePath(offline_uuid)] = Absent,
               ![RegisteredPath(server_uuid)] = fs[OfflinePath(offline_uuid)]]

\* lines 322-324: the rename succeeds; the run is reported and appended
MoveOk ==
    /\ pc = "reg_move"
    /\ experiment # None
    /\ fs[OfflinePath(ids[idx])].exists
    /\ ~fs[RegisteredPath(experiment)].exists
    /\ fs' = move_offline_experiment(ids[idx], experiment)
    /\ renames' = [renames EXCEPT ![ids[idx]] = @ + 1]
    /\ result' = Append(result, experiment)
    /\ idx' = idx + 1
    /\ pc' = "reg_create"
    /\ moved' = [moved EXCEPT ![ids[idx]] = fs[OfflinePath(ids[idx])]]
    /\ UNCHANGED <<applied, ackVars, synced, syncVars, ids, experiment, created,
                   createCalls, uncaught, stderr, mode, project, experiment_names,
                   other_experiment_names, targets, tidx, looked, lookups,
                   synced_experiment_uuids, unsynced_experiment_uuids,
                   synced_experiments, unsynced_experiments,
                   offline_experiment_ids, experiment_path, mainVars, clientVars, workerVars, runVars>>

\* line 322: the rename raises OSError (the source is missing, or the file
\* system refuses); the exception names both paths and nothing catches it
MoveFail ==
    /\ pc = "reg_move"
    /\ experiment # None
    /\ renames' = [renames EXCEPT ![ids[idx]] = @ + 1]
    /\ uncaught' = [type |-> "OSError", filename |-> OfflinePath(ids[idx]),
                    filename2 |-> RegisteredPath(experiment)]
    /\ pc' = "idle"
    /\ UNCHANGED <<fs, applied, ackVars, synced, syncVars, ids, idx, experiment, result,
                   created, createCalls, stderr, cliVars, mainVars, clientVars, workerVars, runVars>>

\* the process dies in the middle of the registration
RegisterCrash ==
    /\ pc \in {"reg_create", "reg_move"}
    /\ pc' = "idle"
    /\ uncaught' = [type |-> "killed"]
    /\ UNCHANGED <<fs, applied, ackVars, synced, syncVars, ids, idx, experiment, result,
                   created, createCalls, renames, stderr, cliVars, mainVars, clientVars, workerVars, runVars>>

(***************************************************************************)
(* The entry points: sync_all_experiments, sync_selected_experiments and   *)
(* the listing, with the lookups they make at the backend.                 *)
(***************************************************************************)
\* the run the backend's getExperiment finds for experiment_id: the uuid or
\* the qualified name of a run it has created; None when it knows none
Resolve(experiment_id) ==
    IF experiment_id[1] \in {"registered", "qualified"} /\ experiment_id[2] \in created
    THEN experiment_id[2]
    ELSE None

\* the entries base_path.iterdir() yields
TopEntries == {p \in Paths : p[1] = "registered" /\ fs[p].exists}

\* the orders in which iterdir can yield the members of S
OrdersOf(S) ==
    {l \in [1..Cardinality(S) -> S] :
        \A i, j \in 1..Cardinality(S) : i # j => l[i] # l[j]}

\* lines 328-329 without the is_valid_uuid test
references_offline_experiment_AnyDirectory(name) ==
    name[1] = "offline" /\ fs[OfflinePath(name[2])].exists

\* lines 328-329: the name parses as a UUID and base_path / OFFLINE_DIRECTORY
\* / name is a directory
references_offline_experiment(name) ==
    is_valid_uuid(name) /\ (name[1] = "offline" /\ fs[OfflinePath(name[2])].exists)

\* lines 337-340, 347-350 when no registration is made: register_offline_experiments
\* is not called and the flow goes on to the synchronisation loop
NoRegistration(message) ==
    /\ ids' = <<>>
    /\ idx' = 1
    /\ experiment' = None
    /\ result' = <<>>
    /\ createCalls' = [u \in OfflineIds |-> 0]
    /\ renames' = [u \in OfflineIds |-> 0]
    /\ uncaught' = NoException
    /\ stderr' = message
    /\ pc' = "after_register"
    /\ UNCHANGED <<fs, applied, ackVars, synced, syncVars, created>>

\* the projects the backend's get_project finds by name
Projects == {1}
\* the names a --project flag or the environment can hold; the last one is
\* the name of no project
ProjectNames == {1, 2}

\* line 133 with the operands exchanged: the environment comes first
get_project_EnvFirst(flag) ==
    LET project_name == IF env_project # None THEN env_project ELSE flag
    IN IF project_name = None THEN None
       ELSE IF project_name \in Projects THEN project_name
       ELSE None

\* lines 132-146: project_name_flag or os.getenv(PROJECT_ENV_NAME); None
\* when there is no name or backend.get_project raises ProjectNotFound
get_project(flag) ==
    LET project_name == IF flag # None THEN flag ELSE env_project
    IN IF project_name = None THEN None
       ELSE IF project_name \in Projects THEN project_name
       ELSE None

\* lines 337-340, 347-350: the registration is made when there are offline
\* ids and get_project returned a project; get_project prints a message
\* when it returns None
RegisterIfProject(offline_ids) ==
    IF offline_ids = <<>>
    THEN /\ project' = None
         /\ NoRegistration(<<>>)
    ELSE /\ project' = get_project(project_name_flag)
         /\ IF get_project(project_name_flag) # None
            THEN register_offline_experiments(offline_ids)
            ELSE NoRegistration(<<"Project not resolved">>)

\* lines 345-350: sync_all_experiments lists the offline directory and
\* registers what it finds
SyncAllStart ==
    /\ pc = "idle"
    /\ mode = "none"
    /\ fs[RegisteredPath(OFFLINE_DIRECTORY)].exists
    /\ mode' = "all"
    /\ \E l \in OrdersOf(get_offline_experiments_ids) :
        /\ offline_experiment_ids' = [i \in 1..Len(l) |-> OfflinePath(l[i])]
        /\ RegisterIfProject(l)
    /\ lookups' = <<>>
    /\ UNCHANGED <<experiment_names, other_experiment_names, targets, tidx, looked,
                   synced_experiment_uuids, unsynced_experiment_uuids,
                   synced_experiments, unsynced_experiments, experiment_path, moved, mainVars, clientVars, workerVars, runVars>>

\* line 346 with line 188: the offline directory is missing, iterdir raises
\* FileNotFoundError, nothing catches it and no run is synchronised
SyncAllOfflineMissing ==
    /\ pc = "idle"
    /\ mode = "none"
    /\ ~fs[RegisteredPath(OFFLINE_DIRECTORY)].exists
    /\ mode' = "all"
    /\ uncaught' = [type |-> "FileNotFoundError"]
    /\ exit_code' = 1
    /\ UNCHANGED <<fs, pc, applied, ackVars, synced, syncVars, ids, idx, experiment,
                   result, created, createCalls, renames, stderr, project,
                   experiment_names, other_experiment_names, targets, tidx, looked,
                   lookups, synced_experiment_uuids, unsynced_experiment_uuids,
                   synced_experiments, unsynced_experiments, offline_experiment_ids,
                   experiment_path, moved, project_name_flag, env_project,
                   clientVars, workerVars, runVars>>

\* the names a command line can give: the name of an entry of the offline
\* directory, the uuid or the qualified name of a run the backend knows,
\* the qualified name of a run it may not know
Names ==
    {OfflinePath(u) : u \in OfflineIds \cup {NotUuid}}
        \cup {RegisteredPath(1), get_qualified_name(1), get_qualified_name(NumServerIds)}

\* lines 332-340: sync_selected_experiments splits the references and
\* registers the offline ones
SyncSelectedStart ==
    /\ pc = "idle"
    /\ mode = "none"
    /\ mode' = "selected"
    /\ \E a, b \in Names : \E names \in {<<a>>, <<a, b>>} :
        LET f(name) == references_offline_experiment(name)
            g(name) == ~references_offline_experiment(name)
        IN /\ experiment_names' = names
           /\ offline_experiment_ids' = SelectSeq(names, f)
           /\ other_experiment_names' = SelectSeq(names, g)
           /\ RegisterIfProject([i \in 1..Len(SelectSeq(names, f)) |->
                                    SelectSeq(names, f)[i][2]])
    /\ lookups' = <<>>
    /\ UNCHANGED <<targets, tidx, looked, synced_experiment_uuids,
                   unsynced_experiment_uuids, synced_experiments,
                   unsynced_experiments, experiment_path, moved, mainVars, clientVars, workerVars, runVars>>

\* lines 340-341, 351: the registration is over; the qualified names of the
\* registered runs are appended and the synchronisation loop is entered
AfterRegister ==
    /\ pc = "after_register"
    /\ pc' = "loop"
    /\ tidx' = 1
    /\ IF mode = "all"
       THEN /\ targets' = TopEntries
            /\ UNCHANGED other_experiment_names
       ELSE /\ other_experiment_names' =
                 other_experiment_names \o
                     [i \in 1..Len(result) |-> get_qualified_name(result[i])]
            /\ UNCHANGED targets
    /\ UNCHANGED <<fs, applied, ackVars, synced, syncVars, regVars, mode, project,
                   experiment_names, looked, lookups, synced_experiment_uuids,
                   unsynced_experiment_uuids, synced_experiments,
                   unsynced_experiments, offline_experiment_ids, experiment_path, moved, mainVars, clientVars, workerVars, runVars>>

\* lines 283-285: sync_all_registered_experiments takes the next entry and
\* goes on to the lookup when it is a run that is not synchronized yet
SyncAllNext ==
    /\ pc = "loop"
    /\ mode = "all"
    /\ \E e \in targets :
        /\ targets' = targets \ {e}
        /\ experiment_path' = e
        /\ IF is_valid_uuid(e)
           THEN /\ synced' = [checked |-> TRUE, path |-> e,
                               value |-> is_experiment_synced(fs[e])]
                /\ pc' = IF is_experiment_synced(fs[e]) THEN "loop" ELSE "lookup"
           ELSE /\ synced' = synced
                /\ pc' = "loop"
    /\ UNCHANGED <<fs, applied, ackVars, syncVars, regVars, mode, project,
                   experiment_names, other_experiment_names, tidx, looked, lookups,
                   synced_experiment_uuids, unsynced_experiment_uuids,
                   synced_experiments, unsynced_experiments, offline_experiment_ids, moved, mainVars, clientVars, workerVars, runVars>>

\* line 292: sync_selected_registered_experiments takes the next name
SyncSelectedNext ==
    /\ pc = "loop"
    /\ mode = "selected"
    /\ tidx <= Len(other_experiment_names)
    /\ pc' = "lookup"
    /\ UNCHANGED <<fs, applied, ackVars, synced, syncVars, regVars, cliVars, mainVars, clientVars, workerVars, runVars>>

\* lines 283, 292: the loop is exhausted and the entry point returns
LoopReturn ==
    /\ pc = "loop"
    /\ IF mode = "all" THEN targets = {} ELSE tidx > Len(other_experiment_names)
    /\ pc' = "idle"
    /\ UNCHANGED <<fs, applied, ackVars, synced, syncVars, regVars, cliVars, mainVars, clientVars, workerVars, runVars>>

\* the argument of the get_experiment call of lines 285 and 293
LookupId == IF mode = "all" THEN experiment_path ELSE other_experiment_names[tidx]

\* lines 121-123: getExperiment answers with the run
GetExperimentOk ==
    /\ pc = "lookup"
    /\ Resolve(LookupId) # None
    /\ looked' = Resolve(LookupId)
    /\ lookups' = Append(lookups, [id |-> LookupId, ok |-> TRUE])
    /\ pc' = "found"
    /\ UNCHANGED <<fs, applied, ackVars, synced, syncVars, regVars, mode, project,
                   experiment_names, other_experiment_names, targets, tidx,
                   synced_experiment_uuids, unsynced_experiment_uuids,
                   synced_experiments, unsynced_experiments,
                   offline_experiment_ids, experiment_path, moved, mainVars, clientVars, workerVars, runVars>>

\* the HTTPError of the lookup is not caught and ends the invocation
GetExperimentHttpError_Raise ==
    /\ pc = "lookup"
    /\ looked' = None
    /\ lookups' = Append(lookups, [id |-> LookupId, ok |-> FALSE])
    /\ uncaught' = [type |-> "HTTPError"]
    /\ pc' = "idle"
    /\ UNCHANGED <<fs, applied, ackVars, synced, syncVars, ids, idx, experiment,
                   result, created, createCalls, renames, stderr, mode, project,
                   experiment_names, other_experiment_names, targets, tidx,
                   synced_experiment_uuids, unsynced_experiment_uuids,
                   synced_experiments, unsynced_experiments,
                   offline_experiment_ids, experiment_path, moved, mainVars, clientVars, workerVars, runVars>>

\* lines 124-128, 286, 294: getExperiment raises HTTPError, with a status of
\* 401, 403 or 404 (skipping) or another one; get_experiment prints a warning
\* and returns None, and the loop goes on to the next entry
GetExperimentHttpError ==
    /\ pc = "lookup"
    /\ \E skipping \in BOOLEAN :
        /\ (Resolve(LookupId) = None => skipping)
        /\ stderr' = Append(stderr, IF skipping
                                    THEN "Warning: Getting experiment. Skipping experiment."
                                    ELSE "Warning: Getting experiment. Please try again later.")
    /\ looked' = None
    /\ lookups' = Append(lookups, [id |-> LookupId, ok |-> FALSE])
    /\ tidx' = IF mode = "selected" THEN tidx + 1 ELSE tidx
    /\ pc' = "loop"
    /\ UNCHANGED <<fs, applied, ackVars, synced, syncVars, ids, idx, experiment,
                   result, created, createCalls, renames, uncaught, mode, project,
                   experiment_names, other_experiment_names, targets,
                   synced_experiment_uuids, unsynced_experiment_uuids,
                   synced_experiments, unsynced_experiments,
                   offline_experiment_ids, experiment_path, moved, mainVars, clientVars, workerVars, runVars>>

\* lines 286-287, 294-297: sync_experiment is called on the run directory
SyncFound ==
    /\ pc = "found"
    /\ LET p == IF mode = "all" THEN experiment_path ELSE RegisteredPath(looked)
       IN /\ fs[p].exists
          /\ sync_experiment(p)
          /\ experiment_path' = p
    /\ UNCHANGED <<mode, project, experiment_names, other_experiment_names, targets,
                   tidx, looked, lookups, synced_experiment_uuids,
                   unsynced_experiment_uuids, synced_experiments,
                   unsynced_experiments, offline_experiment_ids, moved, mainVars, clientVars, workerVars, runVars>>

\* lines 298-299: the run has no directory under the location: a warning,
\* and the loop goes on to the next name
SelectedMissing ==
    /\ pc = "found"
    /\ mode = "selected"
    /\ ~fs[RegisteredPath(looked)].exists
    /\ stderr' = Append(stderr, "Warning: Experiment does not exist in location")
    /\ tidx' = tidx + 1
    /\ pc' = "loop"
    /\ UNCHANGED <<fs, applied, ackVars, synced, syncVars, ids, idx, experiment,
                   result, created, createCalls, renames, uncaught, mode, project,
                   experiment_names, other_experiment_names, targets, looked, lookups,
                   synced_experiment_uuids, unsynced_experiment_uuids,
                   synced_experiments, unsynced_experiments,
                   offline_experiment_ids, experiment_path, moved, mainVars, clientVars, workerVars, runVars>>

\* after a pass the caller registers the offline ids once more
SyncReturn_Reregister ==
    /\ pc = "after_sync"
    /\ tidx' = IF mode = "selected" THEN tidx + 1 ELSE tidx
    /\ idx' = 1
    /\ pc' = IF ids = <<>> THEN "loop" ELSE "reg_create"
    /\ UNCHANGED <<fs, applied, ackVars, synced, syncVars, ids, experiment, result,
                   created, createCalls, renames, uncaught, stderr, mode, project,
                   experiment_names, other_experiment_names, targets, looked, lookups,
                   synced_experiment_uuids, unsynced_experiment_uuids,
                   synced_experiments, unsynced_experiments,
                   offline_experiment_ids, experiment_path, moved, mainVars, clientVars, workerVars, runVars>>

\* line 267: sync_experiment returns and the caller's loop goes on
SyncReturn ==
    /\ pc = "after_sync"
    /\ tidx' = IF mode = "selected" THEN tidx + 1 ELSE tidx
    /\ pc' = "loop"
    /\ UNCHANGED <<fs, applied, ackVars, synced, syncVars, regVars, mode, project,
                   experiment_names, other_experiment_names, targets, looked, lookups,
                   synced_experiment_uuids, unsynced_experiment_uuids,
                   synced_experiments, unsynced_experiments,
                   offline_experiment_ids, experiment_path, moved, mainVars, clientVars, workerVars, runVars>>

\* ---- the client script (alpha_integration_dev/new_client.py) ----

\* the attribute paths modify_properties uses (lines 53-60)
PropertyPaths ==
    {"properties/prop", "properties/prop_number", "properties/nested/prop",
     "properties/prop_to_del", "properties/prop_list", "properties/prop_IO",
     "properties/prop_datetime"}
\* the value of a property the run does not have
Unset == "unset"

Statement(do, at, value) == [do |-> do, at |-> at, value |-> value]

\* lines 42-50: modify_tags
modify_tags ==
    << Statement("add", "sys/tags", {"tag1"}),
       Statement("add", "sys/tags", {"tag2_to_remove", "tag3"}),
       Statement("remove", "sys/tags", {"tag2_to_remove"}),
       Statement("remove", "sys/tags", {"tag4_remove_non_existing"}),
       Statement("sync", "", ""),
       Statement("get", "sys/tags", "") >>

\* lines 52-72: modify_properties; the values are written as they print
modify_properties ==
    << Statement("assign", "properties/prop", "some text"),
       Statement("assign", "properties/prop_number", "42"),
       Statement("assign", "properties/nested/prop", "42"),
       Statement("assign", "properties/prop_to_del", "42"),
       Statement("assign", "properties/prop_list", "[1, 2, 3]"),
       Statement("assign", "properties/prop_IO", "text file"),
       Statement("assign", "properties/prop_datetime", "now"),
       Statement("sync", "", ""),
       Statement("delete", "properties/prop_to_del", ""),
       Statement("get", "properties/prop", ""),
       Statement("get", "properties/prop_number", ""),
       Statement("get", "properties/nested/prop", ""),
       Statement("get", "properties/prop_to_del", "") >>

\* lines 108-110: run calls modify_tags, then modify_properties
Script == modify_tags \o modify_properties

\* the backend applies one operation to the attributes of the run; removing
\* a tag the run does not have changes nothing
Apply(a, operation) ==
    IF operation.do = "add"
    THEN [a EXCEPT !.tags = @ \cup operation.value]
    ELSE IF operation.do = "remove"
    THEN [a EXCEPT !.tags = @ \ operation.value]
    ELSE IF operation.do = "assign"
    THEN [a EXCEPT !.properties[operation.at] = operation.value]
    ELSE [a EXCEPT !.properties[operation.at] = Unset]

\* the operations of a sequence applied one after the other
RECURSIVE ApplyAll(_, _)
ApplyAll(a, operations) ==
    IF operations = <<>> THEN a
    ELSE ApplyAll(Apply(a, Head(operations)), Tail(operations))

\* the run's structure holds the attribute at the given position of the
\* script: its latest statement on the path so far is not a delete
LocallyDefined(at, position) ==
    LET on == {i \in 1..position : Script[i].at = at /\ Script[i].do # "get"}
    IN on = {} \/ Script[CHOOSE i \in on : \A j \in on : j <= i].do # "delete"

\* an attribute method enqueues its operation and returns at once
ClientEnqueue ==
    /\ step < Len(Script)
    /\ Script[step + 1].do \in {"add", "remove", "assign", "delete"}
    /\ enqueued' = Append(enqueued, Script[step + 1])
    /\ step' = step + 1
    /\ UNCHANGED <<fs, pc, applied, ackVars, synced, syncVars, regVars, cliVars,
                   mainVars, workerVars, runVars, consumed, inflight, attrs, got, call, processor, raised>>

\* the processor sends the next operations of its queue, in order, as one
\* batch
ProcessorTake ==
    /\ inflight = 0
    /\ consumed < Len(enqueued)
    /\ \E n \in 1..Min(BatchSize, Len(enqueued) - consumed) : inflight' = n
    /\ UNCHANGED <<fs, pc, applied, ackVars, synced, syncVars, regVars, cliVars,
                   mainVars, workerVars, runVars, step, enqueued, consumed, attrs, got, call, processor,
                   raised>>

\* the backend answers: the operations of the batch are applied in order
ProcessorApply ==
    /\ inflight > 0
    /\ attrs' = ApplyAll(attrs, SubSeq(enqueued, consumed + 1, consumed + inflight))
    /\ consumed' = consumed + inflight
    /\ inflight' = 0
    /\ UNCHANGED <<fs, pc, applied, ackVars, synced, syncVars, regVars, cliVars,
                   mainVars, workerVars, runVars, step, enqueued, got, call, processor, raised>>

\* sync() returns when the processor has sent every operation
Drained_Sent == consumed + inflight = Len(enqueued)

\* sync() returns when every operation enqueued so far has been applied
Drained == consumed = Len(enqueued) /\ inflight = 0

\* lines 49, 61: self.exp.sync()
Run_sync ==
    /\ step < Len(Script)
    /\ Script[step + 1].do = "sync"
    /\ Drained
    /\ step' = step + 1
    /\ UNCHANGED <<fs, pc, applied, ackVars, synced, syncVars, regVars, cliVars,
                   mainVars, workerVars, runVars, enqueued, consumed, inflight, attrs, got, call,
                   processor, raised>>

\* lines 50, 64-72: get() reads the attribute from the backend, and raises
\* AttributeError when the run's structure does not hold the attribute
ClientGet ==
    /\ step < Len(Script)
    /\ Script[step + 1].do = "get"
    /\ LET at == Script[step + 1].at
       IN got' = Append(got,
                   IF ~LocallyDefined(at, step) THEN [at |-> at, raised |-> "AttributeError"]
                   ELSE IF at = "sys/tags" THEN [at |-> at, value |-> attrs.tags]
                   ELSE [at |-> at, value |-> attrs.properties[at]])
    /\ step' = step + 1
    /\ UNCHANGED <<fs, pc, applied, ackVars, synced, syncVars, regVars, cliVars,
                   mainVars, workerVars, runVars, enqueued, consumed, inflight, attrs, call, processor,
                   raised>>

\* ---- File and FileSet (tests/neptune/alpha/attributes/atoms/test_file.py) ----

\* a value passed to an attribute method: its type, and for a FileVal
\* whether it holds a path or the content of a text or binary stream
Value(type, form, data) == [type |-> type, form |-> form, data |-> data]

\* lines 39-46, 55: the values test_assign and test_assign_type_error use
AssignValues ==
    { Value("FileVal", "path", <<"other", "..", "other", "file.txt">>),
      Value("FileVal", "text", <<"Some text stream">>),
      Value("FileVal", "binary", <<"Some binary stream">>),
      Value("int", "", <<>>),
      Value("NoneType", "", <<>>),
      Value("list", "", <<>>) }

\* lines 62-64, 87: the values test_save and test_save_type_error use
UploadValues ==
    { Value("str", "path", <<"some", "path">>),
      Value("int", "", <<>>),
      Value("NoneType", "", <<>>),
      Value("list", "", <<>>),
      Value("type", "", <<>>) }

\* lines 75-77, 93: the values test_save_files and
\* test_save__files_type_error use
UploadFilesValues ==
    { Value("str", "path", <<"some", "path", "*">>),
      Value("int", "", <<>>),
      Value("NoneType", "", <<>>),
      Value("list of int", "", <<>>),
      Value("type", "", <<>>) }

\* _random_path, _random_wait of the test base class
AttributePaths == {<<"a">>, <<"a", "b">>}
Calls ==
    {[method |-> "assign", value |-> v, path |-> a, wait |-> w, done |-> FALSE] :
        v \in AssignValues, a \in AttributePaths, w \in BOOLEAN}
    \cup {[method |-> "upload", value |-> v, path |-> a, wait |-> w, done |-> FALSE] :
        v \in UploadValues, a \in AttributePaths, w \in BOOLEAN}
    \cup {[method |-> "upload_files", value |-> v, path |-> a, wait |-> w, done |-> FALSE] :
        v \in UploadFilesValues, a \in AttributePaths, w \in BOOLEAN}

\* os.getcwd()
Cwd == <<"cwd">>

\* os.path.normpath on the components of a relative path: a ".." takes
\* back the component before it
RECURSIVE normpath(_, _)
normpath(seen, rest) ==
    IF rest = <<>> THEN seen
    ELSE IF Head(rest) = ".." /\ seen # <<>>
         THEN normpath(SubSeq(seen, 1, Len(seen) - 1), Tail(rest))
         ELSE normpath(Append(seen, Head(rest)), Tail(rest))

abspath(file_path) == Cwd \o normpath(<<>>, file_path)

\* the extension of the file names the tests use
Extension(file_path) == IF file_path[Len(file_path)] = "file.txt" THEN "txt" ELSE ""

\* base64_encode of the bytes of a stream; a text stream is encoded as
\* utf-8 first
base64_encode(bytes) == <<"base64">> \o bytes
encode(text) == <<"utf-8">> \o text

\* the type check of each method
ValidValue(c) ==
    IF c.method = "assign" THEN c.value.type = "FileVal"
    ELSE c.value.type = "str"

\* the operation each method builds of a valid value
OperationOf(c) ==
    IF c.method = "assign"
    THEN IF c.value.form = "path"
         THEN [name |-> "UploadFile", path |-> c.path,
               ext |-> Extension(c.value.data), file_path |-> abspath(c.value.data)]
         ELSE [name |-> "UploadFileContent", path |-> c.path,
               ext |-> IF c.value.form = "text" THEN "txt" ELSE "bin",
               file_content |-> base64_encode(IF c.value.form = "text"
                                              THEN encode(c.value.data)
                                              ELSE c.value.data)]
    ELSE IF c.method = "upload"
    THEN [name |-> "UploadFile", path |-> c.path, ext |-> "",
          file_path |-> abspath(c.value.data)]
    ELSE [name |-> "UploadFileSet", path |-> c.path,
          file_globs |-> <<abspath(c.value.data)>>, reset |-> FALSE]

\* lines 48-51, 66-69, 79-82: a test makes a fresh processor and a File or
\* FileSet on a path, and calls the method with a value and a wait flag
NewCall ==
    /\ call.done
    /\ call' \in Calls
    /\ processor' = <<>>
    /\ raised' = NoException
    /\ UNCHANGED <<fs, pc, applied, ackVars, synced, syncVars, regVars, cliVars,
                   mainVars, workerVars, runVars, step, enqueued, consumed, inflight, attrs, got>>

\* the method enqueues its operation without the caller's wait flag
Invoke_NoWait ==
    /\ call.method # "none"
    /\ ~call.done
    /\ call' = [call EXCEPT !.done = TRUE]
    /\ IF ValidValue(call)
       THEN /\ processor' = Append(processor,
                                   [operation |-> OperationOf(call), wait |-> FALSE])
            /\ UNCHANGED raised
       ELSE /\ raised' = [type |-> "TypeError"]
            /\ UNCHANGED processor
    /\ UNCHANGED <<fs, pc, applied, ackVars, synced, syncVars, regVars, cliVars,
                   mainVars, workerVars, runVars, step, enqueued, consumed, inflight, attrs, got>>

\* File.assign, File.upload, FileSet.upload_files: the value's type is
\* verified, then one operation is enqueued with the wait flag
Invoke ==
    /\ call.method # "none"
    /\ ~call.done
    /\ call' = [call EXCEPT !.done = TRUE]
    /\ IF ValidValue(call)
       THEN /\ processor' = Append(processor,
                                   [operation |-> OperationOf(call), wait |-> call.wait])
            /\ UNCHANGED raised
       ELSE /\ raised' = [type |-> "TypeError"]
            /\ UNCHANGED processor
    /\ UNCHANGED <<fs, pc, applied, ackVars, synced, syncVars, regVars, cliVars,
                   mainVars, workerVars, runVars, step, enqueued, consumed, inflight, attrs, got>>

\* ---- Run.__init__ (src/neptune/objects/run.py) ----

\* the empty string: a value that is not None and that "or" and "and" take
\* as false
EmptyString == 0

\* the value is neither None nor empty
Truthy(x) == x # None /\ x # EmptyString

\* Python's "a or b"
Or(a, b) == IF Truthy(a) THEN a ELSE b

\* the values of with_id, of custom_run_id and of NEPTUNE_CUSTOM_RUN_ID
WithIds == {None, EmptyString, 3}
CustomRunIds == {None, EmptyString, 1}
EnvCustomRunIds == {None, EmptyString, 2}
\* what uuid.uuid4() can return
GeneratedIds == {8, 9}

\* lines 265, 333: the mode argument and NEPTUNE_MODE, "" when not given
Modes == {"async", "sync", "offline", "read-only", "debug"}
ModeArguments == Modes \cup {""}
EnvModes == {"", "read-only"}

Arguments ==
    [given : {TRUE}, with_id : WithIds, custom_run_id : CustomRunIds,
     env_custom_run_id : EnvCustomRunIds, mode : ModeArguments, env_mode : EnvModes]

\* Run(...) is called with the arguments and the environment drawn
RunCall ==
    /\ ~init_args.given
    /\ init_args' \in Arguments
    /\ UNCHANGED <<fs, pc, applied, ackVars, synced, syncVars, regVars, cliVars,
                   mainVars, clientVars, workerVars, new_run>>

\* line 333: Mode(mode or os.getenv(CONNECTION_MODE) or Mode.ASYNC.value)
ModeOf(a) == IF a.mode # "" THEN a.mode ELSE IF a.env_mode # "" THEN a.env_mode ELSE "async"

\* lines 312-369: the constructor; it raises at line 350 or goes on to
\* super().__init__ with the custom id of lines 315 and 355-356
Run__init__ ==
    /\ init_args.given
    /\ new_run.state = "none"
    /\ LET with_id == init_args.with_id
           custom_run_id == init_args.custom_run_id
           _custom_run_id == Or(custom_run_id, init_args.env_custom_run_id)
           run_mode == ModeOf(init_args)
       IN IF Truthy(with_id) /\ Truthy(custom_run_id)
          THEN new_run' = [state |-> "raised",
                           exception |-> "NeptuneRunResumeAndCustomIdCollision",
                           with_id |-> with_id, custom_id |-> _custom_run_id,
                           mode |-> run_mode]
          ELSE \E generated \in GeneratedIds :
                new_run' = [state |-> "initialized", exception |-> "none",
                            with_id |-> with_id,
                            custom_id |-> IF _custom_run_id = None /\ run_mode # "read-only"
                                          THEN generated
                                          ELSE _custom_run_id,
                            mode |-> run_mode]
    /\ UNCHANGED <<fs, pc, applied, ackVars, synced, syncVars, regVars, cliVars,
                   mainVars, clientVars, workerVars, init_args>>

\* lines 195-197: partition_experiments starts over the entries of base_path
PartitionStart ==
    /\ pc = "idle"
    /\ mode = "none"
    /\ mode' = "list"
    /\ targets' = TopEntries
    /\ synced_experiment_uuids' = <<>>
    /\ unsynced_experiment_uuids' = <<>>
    /\ synced_experiments' = <<>>
    /\ unsynced_experiments' = <<>>
    /\ lookups' = <<>>
    /\ tidx' = 1
    /\ pc' = "partition"
    /\ UNCHANGED <<fs, applied, ackVars, synced, syncVars, regVars, project,
                   experiment_names, other_experiment_names, looked,
                   offline_experiment_ids, experiment_path, moved, mainVars, clientVars, workerVars, runVars>>

\* lines 197-203: one entry is classified with is_experiment_synced
PartitionNext ==
    /\ pc = "partition"
    /\ \E e \in targets :
        /\ targets' = targets \ {e}
        /\ experiment_path' = e
        /\ IF is_valid_uuid(e)
           THEN /\ synced' = [checked |-> TRUE, path |-> e,
                               value |-> is_experiment_synced(fs[e])]
                /\ synced_experiment_uuids' =
                     IF is_experiment_synced(fs[e])
                     THEN Append(synced_experiment_uuids, e)
                     ELSE synced_experiment_uuids
                /\ unsynced_experiment_uuids' =
                     IF is_experiment_synced(fs[e])
                     THEN unsynced_experiment_uuids
                     ELSE Append(unsynced_experiment_uuids, e)
           ELSE UNCHANGED <<synced, synced_experiment_uuids, unsynced_experiment_uuids>>
    /\ UNCHANGED <<fs, pc, applied, ackVars, syncVars, regVars, mode, project,
                   experiment_names, other_experiment_names, tidx, looked, lookups,
                   synced_experiments, unsynced_experiments, offline_experiment_ids, moved, mainVars, clientVars, workerVars, runVars>>

\* line 197: the entries are exhausted; lines 204-205 follow
PartitionLoopEnd ==
    /\ pc = "partition"
    /\ targets = {}
    /\ tidx' = 1
    /\ pc' = "partition_lookup"
    /\ UNCHANGED <<fs, applied, ackVars, synced, syncVars, regVars, mode, project,
                   experiment_names, other_experiment_names, targets, looked, lookups,
                   synced_experiment_uuids, unsynced_experiment_uuids,
                   synced_experiments, unsynced_experiments,
                   offline_experiment_ids, experiment_path, moved, mainVars, clientVars, workerVars, runVars>>

\* the uuids lines 204 and 205 map get_experiment over, one list after the other
PartitionLookups == synced_experiment_uuids \o unsynced_experiment_uuids

\* lines 204-205 with lines 121-123: the lookup of the next uuid answers
\* and the run is kept in its list
PartitionLookupOk ==
    /\ pc = "partition_lookup"
    /\ tidx <= Len(PartitionLookups)
    /\ Resolve(PartitionLookups[tidx]) # None
    /\ looked' = Resolve(PartitionLookups[tidx])
    /\ lookups' = Append(lookups, [id |-> PartitionLookups[tidx], ok |-> TRUE])
    /\ IF tidx <= Len(synced_experiment_uuids)
       THEN /\ synced_experiments' =
                 Append(synced_experiments, Resolve(PartitionLookups[tidx]))
            /\ UNCHANGED unsynced_experiments
       ELSE /\ unsynced_experiments' =
                 Append(unsynced_experiments, Resolve(PartitionLookups[tidx]))
            /\ UNCHANGED synced_experiments
    /\ tidx' = tidx + 1
    /\ UNCHANGED <<fs, pc, applied, ackVars, synced, syncVars, regVars, mode, project,
                   experiment_names, other_experiment_names, targets,
                   synced_experiment_uuids, unsynced_experiment_uuids,
                   offline_experiment_ids, experiment_path, moved, mainVars, clientVars, workerVars, runVars>>

\* lines 204-205 with lines 124-128: the lookup fails; a warning is printed
\* and the run is left out of both lists
PartitionLookupHttpError ==
    /\ pc = "partition_lookup"
    /\ tidx <= Len(PartitionLookups)
    /\ looked' = None
    /\ lookups' = Append(lookups, [id |-> PartitionLookups[tidx], ok |-> FALSE])
    /\ stderr' = Append(stderr, "Warning: Getting experiment")
    /\ tidx' = tidx + 1
    /\ UNCHANGED <<fs, pc, applied, ackVars, synced, syncVars, ids, idx, experiment,
                   result, created, createCalls, renames, uncaught, mode, project,
                   experiment_names, other_experiment_names, targets,
                   synced_experiment_uuids, unsynced_experiment_uuids,
                   synced_experiments, unsynced_experiments,
                   offline_experiment_ids, experiment_path, moved, mainVars, clientVars, workerVars, runVars>>

\* line 206: partition_experiments returns its two lists
PartitionReturn ==
    /\ pc = "partition_lookup"
    /\ tidx > Len(PartitionLookups)
    /\ pc' = "list_offline"
    /\ UNCHANGED <<fs, applied, ackVars, synced, syncVars, regVars, cliVars, mainVars, clientVars, workerVars, runVars>>

\* line 381 with lines 186-191: main lists the offline directory; iterdir
\* raises FileNotFoundError when the directory is missing, nothing catches
\* it and the interpreter exits with status 1
ListOfflineIds ==
    /\ pc = "list_offline"
    /\ IF fs[RegisteredPath(OFFLINE_DIRECTORY)].exists
       THEN /\ \E l \in OrdersOf(get_offline_experiments_ids) :
                 offline_experiment_ids' = [i \in 1..Len(l) |-> OfflinePath(l[i])]
            /\ pc' = "list_print"
            /\ UNCHANGED <<uncaught, exit_code>>
       ELSE /\ uncaught' = [type |-> "FileNotFoundError"]
            /\ exit_code' = 1
            /\ pc' = "idle"
            /\ UNCHANGED offline_experiment_ids
    /\ UNCHANGED <<fs, applied, ackVars, synced, syncVars, ids, idx, experiment,
                   result, created, createCalls, renames, stderr, mode, project,
                   experiment_names, other_experiment_names, targets, tidx, looked,
                   lookups, synced_experiment_uuids, unsynced_experiment_uuids,
                   synced_experiments, unsynced_experiments, experiment_path, moved,
                   project_name_flag, env_project, clientVars, workerVars, runVars>>

\* lines 209-246, 382: list_experiments calls sys.exit(1) when the three
\* collections are empty; otherwise it prints them and main returns
ListExperiments ==
    /\ pc = "list_print"
    /\ exit_code' = IF /\ synced_experiments = <<>>
                       /\ unsynced_experiments = <<>>
                       /\ offline_experiment_ids = <<>>
                    THEN 1
                    ELSE 0
    /\ pc' = "idle"
    /\ UNCHANGED <<fs, applied, ackVars, synced, syncVars, regVars, cliVars,
                   project_name_flag, env_project, clientVars, workerVars, runVars>>

(***************************************************************************)
(* Specification of one registered run: producer and sync passes.          *)
(***************************************************************************)
TheRun == RegisteredPath(1)

\* no attribute method call
NoCall == [method |-> "none", done |-> TRUE]

\* the run of the client script before its first statement
NoAttributes == [tags |-> {}, properties |-> [a \in PropertyPaths |-> Unset]]

\* the locals of a worker process that has not started a pass
NoWorker ==
    [pc |-> "idle", path |-> TheRun, cursor |-> 0, sync_offset |-> 0, batch |-> <<>>,
     passCalls |-> <<>>, passStart |-> None, passWrites |-> <<>>,
     lastEnd |-> "none", prevEnd |-> "none"]

\* one worker process runs, the other has not started
InitWorkers ==
    /\ worker = 1
    /\ other = NoWorker

\* no Run is being constructed
NoArguments == [given |-> FALSE]
NoRun == [state |-> "none"]

InitRun ==
    /\ init_args = NoArguments
    /\ new_run = NoRun

InitClient ==
    /\ step = 0
    /\ enqueued = <<>>
    /\ consumed = 0
    /\ inflight = 0
    /\ attrs = NoAttributes
    /\ got = <<>>
    /\ call = NoCall
    /\ processor = <<>>
    /\ raised = NoException

InitLocals ==
    /\ pc = "idle"
    /\ path = TheRun
    /\ cursor = 0
    /\ sync_offset = 0
    /\ batch = <<>>
    /\ applied = [s \in ServerIds |-> {}]
    /\ unconfirmed = [s \in ServerIds |-> {}]
    /\ stalled = FALSE
    /\ passCalls = <<>>
    /\ passStart = None
    /\ passWrites = <<>>
    /\ lastEnd = "none"
    /\ prevEnd = "none"
    /\ synced = [checked |-> FALSE, path |-> TheRun, value |-> FALSE]
    /\ ids = <<>>
    /\ idx = 1
    /\ experiment = None
    /\ result = <<>>
    /\ created = {}
    /\ createCalls = [u \in OfflineIds |-> 0]
    /\ renames = [u \in OfflineIds |-> 0]
    /\ uncaught = NoException
    /\ stderr = <<>>
    /\ mode = "none"
    /\ project = None
    /\ experiment_names = <<>>
    /\ other_experiment_names = <<>>
    /\ targets = {}
    /\ tidx = 1
    /\ looked = None
    /\ lookups = <<>>
    /\ synced_experiment_uuids = <<>>
    /\ unsynced_experiment_uuids = <<>>
    /\ synced_experiments = <<>>
    /\ unsynced_experiments = <<>>
    /\ offline_experiment_ids = <<>>
    /\ experiment_path = TheRun
    /\ moved = [u \in OfflineIds |-> Absent]
    /\ project_name_flag = None
    /\ env_project = None
    /\ exit_code = None
    /\ InitClient
    /\ InitWorkers
    /\ InitRun

Init ==
    /\ fs = [p \in Paths |-> IF p = TheRun THEN RunDirectory(1, <<>>, None) ELSE Absent]
    /\ InitLocals

Next ==
    \/ Enqueue(TheRun)
    \/ CheckSynced(TheRun)
    \/ SyncStart(TheRun)
    \/ SyncLoop
    \/ ExecuteOperationsOk
    \/ ExecuteOperationsFail
    \/ SyncWrite
    \/ SyncCrash

Spec == Init /\ [][Next]_vars

(***************************************************************************)
(* Specification of the registration of offline runs.                      *)
(***************************************************************************)
\* the queue a producer that logged n operations left behind; an offline
\* run starts with nothing logged or with a full log
LoggedQueue(n) == [i \in 1..n |-> Operation(i, 1)]

InitRegister ==
    /\ \E n \in [OfflineIds -> {0, MaxVersion}] :
        fs = [p \in Paths |->
                IF p[1] = "offline" /\ p[2] \in OfflineIds
                THEN RunDirectory(p[2], LoggedQueue(n[p[2]]), None)
                ELSE Absent]
    /\ InitLocals

NextRegister ==
    \/ RegisterStart
    \/ RegisterReturn
    \/ register_offline_experiment_ok
    \/ register_offline_experiment_fail
    \/ MoveArgumentError
    \/ MoveOk
    \/ MoveFail
    \/ RegisterCrash

SpecRegister == InitRegister /\ [][NextRegister]_vars


(***************************************************************************)
(* Specification of is_experiment_synced on the local states of a run.     *)
(***************************************************************************)
\* the queues of at most n records with any order of versions
RECURSIVE QueuesUpTo(_)
QueuesUpTo(n) ==
    IF n = 0 THEN {<<>>}
    ELSE QueuesUpTo(n - 1) \cup
         {Append(q, Operation(v, 1)) :
            q \in {x \in QueuesUpTo(n - 1) : Len(x) = n - 1}, v \in Versions}

\* the members of S in increasing order
RECURSIVE Ascending(_)
Ascending(S) ==
    IF S = {} THEN <<>>
    ELSE LET m == CHOOSE x \in S : \A y \in S : y <= x
         IN Append(Ascending(S \ {m}), m)

\* the queues a producer can leave: versions strictly increasing
StrictQueues ==
    UNION {{[i \in 1..Cardinality(S) |-> Operation(Ascending(S)[i], o[Ascending(S)[i]])] :
                o \in [S -> Payloads]} : S \in SUBSET Versions}

\* the offsets a run directory with queue q can hold: none, 0, or the
\* version of one of its records
OffsetsOf(q) == {None, 0} \cup {q[i].version : i \in 1..Len(q)}

InitSynced ==
    /\ \E q \in StrictQueues : \E o \in OffsetsOf(q) :
        fs = [p \in Paths |-> IF p = TheRun THEN RunDirectory(1, q, o) ELSE Absent]
    /\ InitLocals

NextSynced == CheckSynced(TheRun)

SpecSynced == InitSynced /\ [][NextSynced]_vars

(***************************************************************************)
(* Specification of sync passes over a queue that no producer appends to.  *)
(***************************************************************************)
InitPass ==
    /\ \E q \in StrictQueues : \E o \in OffsetsOf(q) :
        fs = [p \in Paths |-> IF p = TheRun THEN RunDirectory(1, q, o) ELSE Absent]
    /\ InitLocals

NextPass ==
    \/ SyncStart(TheRun)
    \/ SyncLoop
    \/ ExecuteOperationsOk
    \/ ExecuteOperationsFail
    \/ SyncWrite
    \/ SyncCrash

SpecPass == InitPass /\ [][NextPass]_vars

(***************************************************************************)
(* Specification of sync passes over a queue whose producer did not keep   *)
(* the versions increasing.                                                *)
(***************************************************************************)
AnyQueues == QueuesUpTo(MaxVersion)

InitAnyQueue ==
    /\ \E q \in AnyQueues :
        fs = [p \in Paths |-> IF p = TheRun THEN RunDirectory(1, q, None) ELSE Absent]
    /\ InitLocals

SpecAnyQueue == InitAnyQueue /\ [][NextPass]_vars

(***************************************************************************)
(* Specification of sync passes against a backend that may not answer: a   *)
(* call that gets no response ends with the client's timeout error.        *)
(***************************************************************************)
InitStall ==
    /\ \E q \in StrictQueues :
        fs = [p \in Paths |-> IF p = TheRun THEN RunDirectory(1, q, None) ELSE Absent]
    /\ InitLocals

NextStall ==
    \/ SyncStart(TheRun)
    \/ SyncLoop
    \/ ExecuteOperationsOk
    \/ BackendStall
    \/ ExecuteOperationsFail
    \/ SyncWrite

SpecStall == InitStall /\ [][NextStall]_vars /\ WF_vars(ExecuteOperationsFail)

(***************************************************************************)
(* Specification of sync passes that run to their end: an accepting        *)
(* backend, no producer, no crash; a pass that can take a step takes it.   *)
(***************************************************************************)
\* the offsets a pass can find: none, or a value up to the last version,
\* the version of a record or not
InitDrain ==
    /\ \E q \in StrictQueues : \E o \in {None} \cup 0..LastVersion(q) :
        fs = [p \in Paths |-> IF p = TheRun THEN RunDirectory(1, q, o) ELSE Absent]
    /\ InitLocals

NextDrain ==
    \/ SyncStart(TheRun)
    \/ SyncLoop
    \/ ExecuteOperationsOk
    \/ SyncWrite

SpecDrain ==
    /\ InitDrain
    /\ [][NextDrain]_vars
    /\ WF_vars(SyncLoop)
    /\ WF_vars(ExecuteOperationsOk)
    /\ WF_vars(SyncWrite)

(***************************************************************************)
(* Specifications of the entry points over a tracking directory: one run   *)
(* the backend knows, registered or not yet present locally, and offline   *)
(* runs with a full log.                                                   *)
(***************************************************************************)
\* the directory base_path / OFFLINE_DIRECTORY and a run that is not one of
\* the offline runs
Holder == RunDirectory(NotUuid, <<>>, None)
Logged(o) == RunDirectory(NotUuid, LoggedQueue(MaxVersion), o)

\* the tracking directory with the offline runs of present, the first of
\* them with one of the given offsets
Tracking(present, offsets) ==
    \E r \in {Absent, Logged(None), Logged(MaxVersion)} :
    \E j \in {Absent, Holder} :
    \E o \in offsets :
        fs = [p \in Paths |->
                IF p = RegisteredPath(OFFLINE_DIRECTORY) THEN Holder
                ELSE IF p = TheRun THEN r
                ELSE IF p = OfflinePath(NotUuid) THEN j
                ELSE IF p[1] = "offline" /\ p[2] \in present
                     THEN RunDirectory(p[2], LoggedQueue(MaxVersion),
                                       IF p[2] = 1 THEN o ELSE None)
                     ELSE Absent]

\* the locals of InitLocals with the backend knowing the runs of known
InitBackend(known) ==
    /\ pc = "idle"
    /\ path = TheRun
    /\ cursor = 0
    /\ sync_offset = 0
    /\ batch = <<>>
    /\ applied = [s \in ServerIds |-> {}]
    /\ unconfirmed = [s \in ServerIds |-> {}]
    /\ stalled = FALSE
    /\ passCalls = <<>>
    /\ passStart = None
    /\ passWrites = <<>>
    /\ lastEnd = "none"
    /\ prevEnd = "none"
    /\ synced = [checked |-> FALSE, path |-> TheRun, value |-> FALSE]
    /\ ids = <<>>
    /\ idx = 1
    /\ experiment = None
    /\ result = <<>>
    /\ created = known
    /\ createCalls = [u \in OfflineIds |-> 0]
    /\ renames = [u \in OfflineIds |-> 0]
    /\ uncaught = NoException
    /\ stderr = <<>>
    /\ mode = "none"
    /\ project = None
    /\ experiment_names = <<>>
    /\ other_experiment_names = <<>>
    /\ targets = {}
    /\ tidx = 1
    /\ looked = None
    /\ lookups = <<>>
    /\ synced_experiment_uuids = <<>>
    /\ unsynced_experiment_uuids = <<>>
    /\ synced_experiments = <<>>
    /\ unsynced_experiments = <<>>
    /\ offline_experiment_ids = <<>>
    /\ experiment_path = TheRun
    /\ moved = [u \in OfflineIds |-> Absent]
    /\ exit_code = None
    /\ InitClient
    /\ InitWorkers
    /\ InitRun

\* what the entry points share: registration, lookups, sync passes
NextEntry ==
    \/ RegisterReturn
    \/ register_offline_experiment_ok
    \/ register_offline_experiment_fail
    \/ MoveArgumentError
    \/ MoveOk
    \/ MoveFail
    \/ AfterRegister
    \/ LoopReturn
    \/ GetExperimentOk
    \/ GetExperimentHttpError
    \/ SyncFound
    \/ SyncLoop
    \/ ExecuteOperationsOk
    \/ ExecuteOperationsFail
    \/ SyncWrite
    \/ SyncReturn

\* one or two offline runs are present
InitAll ==
    /\ \E present \in {{1}, {1, 2}} : Tracking(present, {None, BatchSize})
    /\ InitBackend({1})
    /\ project_name_flag \in {None, 1}
    /\ env_project = None

NextAll == SyncAllStart \/ SyncAllNext \/ NextEntry

SpecAll == InitAll /\ [][NextAll]_vars

InitSelected ==
    /\ \E present \in SUBSET OfflineIds : Tracking(present, {None})
    /\ InitBackend({1})
    /\ project_name_flag \in {None, 1}
    /\ env_project = None

NextSelected == SyncSelectedStart \/ SyncSelectedNext \/ SelectedMissing \/ NextEntry

SpecSelected == InitSelected /\ [][NextSelected]_vars

\* two runs, each synchronised by a worker process of its own; the
\* processes are interleaved at every step
InitWorkerRuns ==
    /\ \E d1 \in {Logged(None), Logged(1), Logged(MaxVersion)} :
       \E q2 \in {LoggedQueue(MaxVersion), LoggedQueue(MaxVersion - 1)} :
       \E o2 \in {None, BatchSize} :
        fs = [p \in Paths |->
                IF p = RegisteredPath(1) THEN d1
                ELSE IF p = RegisteredPath(NumWorkers) THEN RunDirectory(NotUuid, q2, o2)
                ELSE Absent]
    /\ InitLocals

NextWorkers ==
    \/ SyncStart(RegisteredPath(worker))
    \/ SyncLoop
    \/ ExecuteOperationsOk
    \/ ExecuteOperationsFail
    \/ SyncWrite
    \/ Switch

SpecWorkers == InitWorkerRuns /\ [][NextWorkers]_vars

\* one producer appends to the queue of a run while passes of one
\* synchroniser run on it, with no crash
InitAppend ==
    /\ fs = [p \in Paths |-> IF p = TheRun THEN RunDirectory(1, <<>>, None) ELSE Absent]
    /\ InitLocals

NextAppend ==
    \/ Enqueue(TheRun)
    \/ SyncStart(TheRun)
    \/ SyncLoop
    \/ ExecuteOperationsOk
    \/ ExecuteOperationsFail
    \/ SyncWrite

SpecAppend == InitAppend /\ [][NextAppend]_vars

\* the client script runs while the run's processor drains its queue
InitClientScript ==
    /\ fs = [p \in Paths |-> Absent]
    /\ InitLocals

NextClient == ClientEnqueue \/ Run_sync \/ ClientGet \/ ProcessorTake \/ ProcessorApply

SpecClient == InitClientScript /\ [][NextClient]_vars

\* the tests of TestFile, one call after the other
InitFile ==
    /\ fs = [p \in Paths |-> Absent]
    /\ InitLocals

NextFile == NewCall \/ Invoke

SpecFile == InitFile /\ [][NextFile]_vars

\* one offline run, with each combination of the --project flag and the
\* NEPTUNE_PROJECT variable: unset, the name of a project, the name of none
InitProject ==
    /\ Tracking({1}, {None})
    /\ InitBackend({1})
    /\ project_name_flag \in {None} \cup ProjectNames
    /\ env_project \in {None} \cup ProjectNames

NextProject ==
    \/ SyncAllStart
    \/ SyncAllNext
    \/ SyncSelectedStart
    \/ SyncSelectedNext
    \/ SelectedMissing
    \/ NextEntry

SpecProject == InitProject /\ [][NextProject]_vars

\* the listing: every run the backend may know is absent, unsynchronized
\* or synchronized
InitList ==
    /\ \E d \in [ServerIds -> {Absent, Logged(None), Logged(MaxVersion)}] :
       \E present \in SUBSET OfflineIds :
       \E holder \in {Absent, Holder} :
        /\ (holder = Absent => present = {})
        /\ fs = [p \in Paths |->
                IF p = RegisteredPath(OFFLINE_DIRECTORY) THEN holder
                ELSE IF p[1] = "registered" THEN d[p[2]]
                ELSE IF p[2] \in present
                     THEN RunDirectory(p[2], LoggedQueue(MaxVersion), None)
                     ELSE Absent]
    /\ InitBackend(ServerIds)
    /\ project_name_flag = None
    /\ env_project = None

NextList ==
    \/ PartitionStart
    \/ PartitionNext
    \/ PartitionLoopEnd
    \/ PartitionLookupOk
    \/ PartitionLookupHttpError
    \/ PartitionReturn
    \/ ListOfflineIds
    \/ ListExperiments

SpecList == InitList /\ [][NextList]_vars

\* a Run is constructed
InitRunCall ==
    /\ fs = [p \in Paths |-> Absent]
    /\ InitLocals

NextRun == RunCall \/ Run__init__

SpecRun == InitRunCall /\ [][NextRun]_vars

\* --list or a synchronisation of everything on a location whose offline
\* directory may be missing
InitLocation == InitList

NextLocation == NextList \/ SyncAllOfflineMissing

SpecLocation == InitLocation /\ [][NextLocation]_vars

(***************************************************************************)
(* Properties.                                                             *)
(***************************************************************************)
RECURSIVE Concat(_)
Concat(ss) == IF ss = <<>> THEN <<>> ELSE Head(ss) \o Concat(Tail(ss))

\* the versions handed to the backend by the current pass, call after call
PassSent == Concat([i \in 1..Len(passCalls) |-> passCalls[i].versions])

StrictlyIncreasing(vs) == \A i \in 1..(Len(vs) - 1) : vs[i] < vs[i + 1]

Last(seq) == seq[Len(seq)]

\* the number of records of q whose version is at most o
PrefixLen(q, o) == Cardinality({i \in 1..Len(q) : q[i].version <= o})

\* C1: over sync passes interleaved with crashes, restarts and backend
\* failures, the persisted sync offset of a run never decreases
C1_MonotonicOffset ==
    [][\A p \in Paths :
        (fs[p].exists /\ fs'[p].exists) => fs'[p].offset >= fs[p].offset]_vars

\* C1 witness: a pass that followed a crashed or failed pass raised an
\* offset that had already been persisted
C1_Witness ==
    /\ prevEnd \in {"crashed", "failed"}
    /\ passStart # None
    /\ passWrites # <<>>
    /\ fs[path].offset > passStart

\* C2: starting without a persisted offset, every record whose version is
\* at most the persisted offset was in an execute_operations call that
\* returned successfully
C2_OffsetImpliesApplied ==
    \A p \in Paths :
        (fs[p].exists /\ p[1] = "registered") =>
            \A i \in 1..Len(fs[p].queue) :
                fs[p].queue[i].version <= fs[p].offset
                    => fs[p].queue[i].version \in applied[p[2]]

\* C2 witness: an offset covering several records, with more records after it
C2_Witness ==
    /\ fs[TheRun].offset # None
    /\ PrefixLen(fs[TheRun].queue, fs[TheRun].offset) >= 2
    /\ LastVersion(fs[TheRun].queue) > fs[TheRun].offset

\* C3: no record handed to execute_operations has a version at or below the
\* offset persisted at the moment of the call
C3_NoAcknowledgedSent ==
    \A i \in 1..Len(passCalls) :
        \A k \in 1..Len(passCalls[i].versions) :
            passCalls[i].versions[k] > passCalls[i].persisted

\* the position in q of the record with version v
IndexOf(q, v) == CHOOSE i \in 1..Len(q) : q[i].version = v

\* C3 witness: a call whose batch straddled the persisted offset: its first
\* record is not the first record of the batch that was read
C3_Witness ==
    \E i \in 1..Len(passCalls) :
        /\ passCalls[i].persisted > 0
        /\ (IndexOf(fs[path].queue, passCalls[i].versions[1]) - 1) % BatchSize # 0

\* C4: a pass that completes after an earlier pass stopped with the offset
\* of a prefix of length k persisted dispatches exactly records k+1..N, in
\* order, and none of records 1..k
C4_IdempotentResume ==
    (lastEnd = "completed" /\ prevEnd \in {"crashed", "failed"}) =>
        LET q == fs[path].queue
            k == PrefixLen(q, passStart)
        IN PassSent = Versions_of(SubSeq(q, k + 1, cursor))

\* C4 witness: a resumed pass completed with a persisted prefix and records
\* left after it
C4_Witness ==
    /\ lastEnd = "completed"
    /\ prevEnd \in {"crashed", "failed"}
    /\ passStart # None
    /\ PrefixLen(fs[path].queue, passStart) >= 1
    /\ PrefixLen(fs[path].queue, passStart) + 2 <= cursor

\* C5: when execute_operations fails the invocation aborts: the failed call
\* is the last call of the pass, and the persisted offset is the one written
\* by the last successful batch (the offset at the start when there is none)
C5_AbortOnFailure ==
    \A i \in 1..Len(passCalls) :
        ~passCalls[i].ok =>
            /\ i = Len(passCalls)
            /\ pc = "idle"
            /\ lastEnd = "failed"
            /\ fs[path].offset =
                 IF i = 1 THEN passStart ELSE Last(passCalls[i - 1].versions)

\* C5 witness: a batch failed after an earlier batch of the pass succeeded
C5_Witness ==
    /\ Len(passCalls) >= 2
    /\ ~Last(passCalls).ok
    /\ lastEnd = "failed"

\* C6: within one pass the versions handed to the backend, concatenated over
\* the successive calls, are strictly increasing
C6_StrictlyIncreasingDispatch == StrictlyIncreasing(PassSent)

\* C6 witness: a pass that made several calls
C6_Witness ==
    /\ Len(passCalls) >= 2
    /\ Len(PassSent) >= 3

LocationsOf(r) == {p \in Paths : fs[p].exists /\ fs[p].run = r}

\* C8: during and after register_offline_experiments the content of each
\* offline run is under exactly one directory, offline or registered
C8_ExactlyOneLocation ==
    \A r \in OfflineIds : Cardinality(LocationsOf(r)) = 1

\* C8 witness: in the middle of a registration one run has been moved and
\* another is still offline
C8_Witness ==
    /\ pc = "reg_create"
    /\ \E r \in OfflineIds : \E p \in LocationsOf(r) : p[1] = "registered"
    /\ \E r \in OfflineIds : \E p \in LocationsOf(r) : p[1] = "offline"

\* C9 as stated: when create_experiment fails for one offline run, its
\* directory stays offline, no rename is attempted for it, and once the
\* invocation is over the other runs of the list have been moved
C9_SkipFailedCreate ==
    (pc = "idle" /\ uncaught.type \notin {"OSError", "killed"} /\ ids # <<>>) =>
        \A i \in 1..Len(ids) :
            \/ (createCalls[ids[i]] > 0 /\ renames[ids[i]] = 0
                    /\ fs[OfflinePath(ids[i])].exists)
            \/ ~fs[OfflinePath(ids[i])].exists

\* C10 as stated: when the rename fails after create_experiment succeeded,
\* the run's directory is still in the offline namespace, the failure names
\* the offline and the server uuid, and create_experiment was called once
\* for that run
C10_RenameFailure ==
    uncaught.type = "OSError" =>
        LET u == uncaught.filename[2]
        IN /\ fs[OfflinePath(u)].exists
           /\ uncaught.filename = OfflinePath(u)
           /\ uncaught.filename2[1] = "registered"
           /\ uncaught.filename2[2] \in created
           /\ createCalls[u] = 1

\* C12 as stated: over crashes at any step and re-invocations, no record is
\* in more than one successfully executed execute_operations call
C12_Original ==
    [][(pc = "sync_execute" /\ pc' = "sync_write") =>
        \A i \in 1..Len(batch) : batch[i].version \notin applied[path[2]]]_vars

\* C12 amended: a record is in a second successfully executed call only
\* when a crash fell between an earlier successful call that held it and
\* the offset write that follows that call
C12_ResentOnlyAfterLostWrite ==
    [][(pc = "sync_execute" /\ pc' = "sync_write") =>
        \A i \in 1..Len(batch) :
            batch[i].version \in applied[path[2]]
                => batch[i].version \in unconfirmed[path[2]]]_vars

\* C12 witness: a re-invoked pass has executed again a record whose offset
\* write was cut off by a crash
C12_Witness ==
    /\ pc = "sync_write"
    /\ prevEnd = "crashed"
    /\ \E i \in 1..Len(batch) : batch[i].version \in unconfirmed[path[2]]

\* the queue holds versions 1..N, one after the other
Contiguous(q) == \A i \in 1..Len(q) : q[i].version = i

\* C13: for a queue of versions 1..N without a persisted offset, a pass
\* against an accepting backend makes ceil(N/B) calls and writes the
\* offsets B, 2B, ..., N in that order
C13_CallsAndOffsets ==
    LET q == fs[path].queue
        N == Len(q)
        calls == (N + BatchSize - 1) \div BatchSize
    IN (lastEnd = "completed" /\ passStart = None /\ Contiguous(q)) =>
        /\ Len(passCalls) = calls
        /\ passWrites = [i \in 1..calls |-> Min(i * BatchSize, N)]

\* C13 witness: a completed pass over 1..N that needed a last, shorter batch
C13_Witness ==
    /\ lastEnd = "completed"
    /\ passStart = None
    /\ Contiguous(fs[path].queue)
    /\ Len(fs[path].queue) > BatchSize
    /\ Len(fs[path].queue) % BatchSize # 0
    /\ Len(passCalls) >= 2

\* C19 as stated: also for a queue with a record whose version is not
\* greater than that of the record before it, no offset below the persisted
\* one is ever persisted: each offset a pass writes is at least the offset
\* that was persisted before it
C19_NoSmallerOffsetPersisted ==
    \A i \in 1..Len(passWrites) :
        passWrites[i] >= (IF i = 1 THEN passStart ELSE passWrites[i - 1])

RegisteredAs(r) == CHOOSE p \in Paths : p[1] = "registered" /\ fs[p].exists /\ fs[p].run = r

\* C11: the rename changes nothing but the location: the registered
\* directory holds the queue records the offline directory held, it holds
\* the offset the offline directory held until a sync pass writes one, and
\* the first pass on it starts from that offset and dispatches exactly the
\* records above it
C11_MoveKeepsQueueAndOffset ==
    \A r \in OfflineIds :
        moved[r] # Absent =>
            LET p == RegisteredAs(r)
            IN /\ Cardinality(LocationsOf(r)) = 1
               /\ fs[p].queue = moved[r].queue
               /\ (p \in targets \/ pc \in {"reg_create", "reg_move", "after_register"})
                    => fs[p].offset = moved[r].offset
               /\ (path = p /\ lastEnd # "none") =>
                    /\ passStart = moved[r].offset
                    /\ PassSent = Versions_of(SubSeq(fs[p].queue,
                                      PrefixLen(fs[p].queue, passStart) + 1,
                                      PrefixLen(fs[p].queue, passStart) + Len(PassSent)))
                    /\ lastEnd = "completed" =>
                         Len(PassSent) = Len(fs[p].queue) - PrefixLen(fs[p].queue, passStart)

\* C11 witness: a run registered with a persisted offset has been synced
\* from that offset to the end of its queue
C11_Witness ==
    /\ moved[1] # Absent
    /\ moved[1].offset = BatchSize
    /\ path = RegisteredAs(1)
    /\ lastEnd = "completed"
    /\ passStart = BatchSize
    /\ PassSent # <<>>

\* the number of positions of seq that hold x
Count(seq, x) == Cardinality({i \in 1..Len(seq) : seq[i] = x})

\* C14: when register_offline_experiments returns normally, one
\* create_experiment call and one rename were made for each offline id of
\* the list, as many runs were returned, and none of the ids is left in the
\* offline namespace
C14_CallsRenamesAndEmptyOffline ==
    (pc = "idle" /\ ids # <<>> /\ uncaught = NoException) =>
        /\ \A u \in OfflineIds :
            /\ createCalls[u] = Count(ids, u)
            /\ renames[u] = Count(ids, u)
            /\ Count(ids, u) > 0 => ~fs[OfflinePath(u)].exists
        /\ Len(result) = Len(ids)

\* C14 witness: two offline runs were registered and the offline namespace
\* is empty
C14_Witness ==
    /\ pc = "idle"
    /\ uncaught = NoException
    /\ Len(ids) = 2
    /\ ids[1] # ids[2]
    /\ createCalls[ids[1]] = 1
    /\ renames[ids[2]] = 1
    /\ get_offline_experiments_ids = {}

\* x is an element of seq
InSeq(x, seq) == \E i \in 1..Len(seq) : seq[i] = x

\* C15: sync_selected_experiments puts each reference in exactly one of the
\* two lists: in the offline one iff it parses as a UUID and a directory of
\* that name exists in the offline namespace, otherwise in the other one
C15_RoutedByUuidAndDirectory ==
    [][(mode = "none" /\ mode' = "selected") =>
        /\ Len(offline_experiment_ids') + Len(other_experiment_names')
              = Len(experiment_names')
        /\ \A i \in 1..Len(experiment_names') :
            LET name == experiment_names'[i]
                offline == /\ is_valid_uuid(name)
                           /\ name[1] = "offline"
                           /\ fs[OfflinePath(name[2])].exists
            IN /\ offline <=> InSeq(name, offline_experiment_ids')
               /\ ~offline <=> InSeq(name, other_experiment_names')]_vars

\* C15 witness: of two references one was routed as an offline run and the
\* other, the name of a directory of the offline namespace that is not a
\* UUID, as a registered-run identifier
C15_Witness ==
    /\ mode = "selected"
    /\ Len(experiment_names) = 2
    /\ offline_experiment_ids # <<>>
    /\ fs[OfflinePath(NotUuid)].exists
    /\ InSeq(OfflinePath(NotUuid), other_experiment_names)

\* C16: a reference whose lookup fails, or that resolves to a run without a
\* local directory, is skipped with one warning: no directory content
\* changes, no execute_operations call is made, nothing is raised and the
\* loop moves to the next reference; an invocation that ends normally has
\* looked up every reference
C16_SkippedWithWarning ==
    /\ [][((pc = "lookup" /\ looked' = None) \/ (pc = "found" /\ pc' # "sync_loop")) =>
            /\ fs' = fs
            /\ applied' = applied
            /\ passCalls' = passCalls
            /\ Len(stderr') = Len(stderr) + 1
            /\ uncaught' = NoException
            /\ pc' = "loop"
            /\ tidx' = tidx + 1]_vars
    /\ []((mode = "selected" /\ pc = "idle" /\ uncaught = NoException) =>
            /\ Len(lookups) = Len(other_experiment_names)
            /\ \A i \in 1..Len(lookups) : lookups[i].id = other_experiment_names[i])

\* C16 witness: after a reference was skipped a later one was synchronized
C16_Witness ==
    /\ mode = "selected"
    /\ pc = "idle"
    /\ uncaught = NoException
    /\ Len(lookups) = 2
    /\ ~lookups[1].ok
    /\ lookups[2].ok
    /\ lastEnd = "completed"
    /\ passCalls # <<>>

\* C17: a call of is_experiment_synced makes no backend call and changes
\* no run directory, and whatever the number of such calls a completed pass
\* dispatches exactly the records above the offset it started from
C17_CheckChangesNothing ==
    /\ [][synced' # synced =>
            /\ fs' = fs
            /\ applied' = applied
            /\ passCalls' = passCalls
            /\ lookups' = lookups
            /\ created' = created]_vars
    /\ [](lastEnd = "completed" =>
            PassSent = Versions_of(SubSeq(fs[path].queue,
                          PrefixLen(fs[path].queue, passStart) + 1, cursor)))

\* C17 witness: a run was found unsynchronized and a pass that followed the
\* check has dispatched its records
C17_Witness ==
    /\ synced.checked
    /\ ~synced.value
    /\ lastEnd = "completed"
    /\ passCalls # <<>>
    /\ is_experiment_synced(fs[TheRun])

\* C18 as stated: the listing classifies the run directories without any
\* call to the backend
C18_ListingWithoutBackendCall ==
    mode = "list" => lookups = <<>>


\* C24: when every record of the batch that was read has a version at or
\* below the current offset, the loop goes on to the next read with the
\* cursor past the batch, without an execute_operations call and without an
\* offset write
C24_AcknowledgedBatchSkipped ==
    [][LET b == get_batch(fs[path].queue, cursor, BatchSize)
       IN (/\ pc = "sync_loop"
           /\ cursor' # cursor
           /\ \A i \in 1..Len(b) : b[i].version <= sync_offset) =>
            /\ pc' = "sync_loop"
            /\ cursor' = cursor + Len(b)
            /\ passCalls' = passCalls
            /\ passWrites' = passWrites
            /\ applied' = applied
            /\ fs' = fs
            /\ sync_offset' = sync_offset]_vars

\* C24 witness: a pass has gone past a whole acknowledged batch without a
\* call or a write
C24_Witness ==
    /\ pc = "sync_loop"
    /\ cursor >= BatchSize
    /\ passCalls = <<>>
    /\ passWrites = <<>>
    /\ fs[path].queue[cursor].version <= sync_offset

\* the offset a pass works from when it found passStart persisted
StartOffset == IF passStart = None THEN 0 ELSE passStart

\* C25: with no appends and an accepting backend a pass that has started
\* returns, from any persisted offset; when it has returned, each record
\* above the initial offset was dispatched once, no other record was, and
\* if there was such a record the persisted offset is the last version
C25_TerminatesHavingSentTheRest ==
    /\ (pc \in {"sync_loop", "sync_execute", "sync_write"})
          ~> (pc = "idle" /\ lastEnd = "completed")
    /\ [](lastEnd = "completed" =>
            LET q == fs[path].queue
            IN /\ \A i \in 1..Len(q) :
                    Count(PassSent, q[i].version) =
                        IF q[i].version > StartOffset THEN 1 ELSE 0
               /\ (\E i \in 1..Len(q) : q[i].version > StartOffset)
                    => fs[path].offset = Last(q).version)

\* C25 witness: a pass that started from a persisted offset has returned
\* after more than one call
C25_Witness ==
    /\ lastEnd = "completed"
    /\ passStart # None
    /\ passStart > 0
    /\ Len(passCalls) >= 2

\* the versions of q are not 1, 2, ..., Len(q)
HasGap(q) == \E i \in 1..Len(q) : q[i].version # i

\* the records of q above offset o, in order
Above(q, o) ==
    LET keep(r) == r.version > o
    IN SelectSeq(q, keep)

\* C26: for a queue with gaps in its versions and any initial offset, a
\* pass that completes has dispatched the records above the offset, each
\* once and in order, and has left the last record's version as the offset
C26_GapsTolerated ==
    LET q == fs[path].queue
    IN (lastEnd = "completed" /\ HasGap(q)) =>
        /\ PassSent = Versions_of(Above(q, StartOffset))
        /\ Concat([i \in 1..Len(passCalls) |-> passCalls[i].ops]) = Ops_of(Above(q, StartOffset))
        /\ fs[path].offset = Last(q).version

\* C26 witness: a completed pass whose initial offset was inside a gap of
\* the versions and in the middle of a batch
C26_Witness ==
    LET q == fs[path].queue
    IN /\ lastEnd = "completed"
       /\ passStart # None
       /\ Len(q) >= 2
       /\ passStart > q[1].version
       /\ passStart < Last(q).version
       /\ \A i \in 1..Len(q) : q[i].version # passStart
       /\ PrefixLen(q, passStart) % BatchSize # 0
       /\ PassSent # <<>>

\* the location holds a run directory with a valid UUID name, at its top
\* level or in the offline namespace
HoldsRunState ==
    \/ \E e \in TopEntries : is_valid_uuid(e)
    \/ \E p \in Paths : p[1] = "offline" /\ fs[p].exists /\ is_valid_uuid(p)

\* C21 as stated: the listing exits with a non-zero status exactly when the
\* location holds no run directory, whatever the backend answered
C21_ExitNonZeroIffNoRunState ==
    (mode = "list" /\ pc = "idle" /\ exit_code # None) =>
        (exit_code # 0 <=> ~HoldsRunState)

\* C30 as stated: when the dispatch of one run fails, the invocation still
\* visits the other runs: no unsynchronized run directory is left unvisited
\* when sync_all_experiments ends
C30_FailureDoesNotAbortOthers ==
    (mode = "all" /\ pc = "idle" /\ uncaught.type = "backend") =>
        \A e \in targets : ~(is_valid_uuid(e) /\ ~is_experiment_synced(fs[e]))

\* C27: within one invocation every create_experiment call and every
\* rename of a run directory is made before any sync pass has started, and
\* every execute_operations call is keyed by a server-assigned id and reads
\* a directory of the registered namespace, never one of the offline one
C27_RegistrationBeforeDispatch ==
    /\ [][(\/ createCalls' # createCalls
           \/ renames' # renames
           \/ \E p \in Paths : fs'[p].exists # fs[p].exists)
          => (lastEnd = "none" /\ passCalls = <<>>)]_vars
    /\ [](\A i \in 1..Len(passCalls) :
            /\ passCalls[i].uuid \in created
            /\ path = RegisteredPath(passCalls[i].uuid)
            /\ fs[path].exists)

\* C27 witness: two offline runs were registered and renamed, and the
\* queue of one of them is being dispatched under its server id
C27_Witness ==
    /\ Len(result) = 2
    /\ \A u \in OfflineIds : createCalls[u] = 1 /\ renames[u] = 1
    /\ passCalls # <<>>
    /\ \E u \in OfflineIds : moved[u] # Absent /\ path = RegisteredAs(u)

\* C28 as stated: when sync_selected_experiments ends, every offline run it
\* registered has its qualified name among the registered targets and every
\* record of its queue applied by the backend under its server-assigned id
C28_RegisteredThenSynced ==
    (mode = "selected" /\ pc = "idle") =>
        \A i \in 1..Len(result) :
            /\ InSeq(get_qualified_name(result[i]), other_experiment_names)
            /\ \A j \in 1..Len(fs[RegisteredPath(result[i])].queue) :
                fs[RegisteredPath(result[i])].queue[j].version \in applied[result[i]]

\* the invocation was given offline runs and resolved no project
NoProject == mode # "none" /\ offline_experiment_ids # <<>> /\ project = None

\* C29: when offline runs are given and no project is resolved, no
\* create_experiment call is made and no directory of the offline namespace
\* changes; the loop over the registered runs is entered with the targets
\* it has without offline runs, and when the invocation returns every
\* registered run that was looked up successfully is synchronized; a
\* --project flag decides the project alone, whatever the environment holds
C29_NoProjectSkipsRegistrationOnly ==
    /\ [](NoProject =>
            /\ \A u \in OfflineIds : createCalls[u] = 0 /\ renames[u] = 0
            /\ result = <<>>)
    /\ [][NoProject' =>
            /\ created' = created
            /\ \A p \in Paths : p[1] = "offline" => fs'[p] = fs[p]]_vars
    /\ [][(NoProject /\ pc = "after_register") =>
            /\ pc' = "loop"
            /\ mode = "all" => targets' = TopEntries
            /\ mode = "selected" => other_experiment_names' = other_experiment_names]_vars
    /\ []((NoProject /\ pc = "idle" /\ uncaught = NoException) =>
            /\ mode = "all" =>
                /\ targets = {}
                /\ \A e \in TopEntries :
                    (is_valid_uuid(e) /\ ~is_experiment_synced(fs[e])) =>
                        InSeq([id |-> e, ok |-> FALSE], lookups)
            /\ mode = "selected" =>
                /\ Len(lookups) = Len(other_experiment_names)
                /\ \A i \in 1..Len(lookups) :
                    /\ lookups[i].id = other_experiment_names[i]
                    /\ (lookups[i].ok /\ fs[RegisteredPath(Resolve(lookups[i].id))].exists)
                         => is_experiment_synced(fs[RegisteredPath(Resolve(lookups[i].id))]))
    /\ [][(mode = "none" /\ mode' # "none" /\ offline_experiment_ids' # <<>>
             /\ project_name_flag # None) =>
            project' = IF project_name_flag \in Projects
                       THEN project_name_flag
                       ELSE None]_vars

\* C29 witness: the flag names no project while the environment names one;
\* the invocation has returned with the offline run still in the offline
\* namespace and the registered run synchronized by this invocation
C29_Witness ==
    /\ NoProject
    /\ pc = "idle"
    /\ uncaught = NoException
    /\ project_name_flag \notin Projects \cup {None}
    /\ env_project \in Projects
    /\ fs[OfflinePath(1)].exists
    /\ applied[1] # {}
    /\ is_experiment_synced(fs[TheRun])

\* what the assertions of the script expect of its get() calls (lines 50,
\* 64-72)
Asserted ==
    << [at |-> "sys/tags", value |-> {"tag1", "tag3"}],
       [at |-> "properties/prop", value |-> "some text"],
       [at |-> "properties/prop_number", value |-> "42"],
       [at |-> "properties/nested/prop", value |-> "42"],
       [at |-> "properties/prop_to_del", raised |-> "AttributeError"] >>

RECURSIVE SoloCalls(_, _, _)
SoloCalls(q, c, offset) ==
    LET b == get_batch(q, c, BatchSize)
    IN IF b = <<>> THEN <<>>
       ELSE IF FilterBatch(b, offset).skip THEN SoloCalls(q, c + Len(b), offset)
       ELSE <<Versions_of(FilterBatch(b, offset).batch)>>
                \o SoloCalls(q, c + Len(b), b[Len(b)].version)

\* the pass with the locals l has done what a pass alone on its run does:
\* its calls are the first of the solo calls, under the uuid of its
\* directory, all of them when it completed, with the offset of the last
AsAlone(l) ==
    l.lastEnd # "none" =>
        LET solo == SoloCalls(fs[l.path].queue, 0,
                              IF l.passStart = None THEN 0 ELSE l.passStart)
        IN /\ Len(l.passCalls) <= Len(solo)
           /\ \A i \in 1..Len(l.passCalls) :
                /\ l.passCalls[i].uuid = l.path[2]
                /\ l.passCalls[i].versions = solo[i]
           /\ l.lastEnd = "completed" =>
                /\ Len(l.passCalls) = Len(solo)
                /\ fs[l.path].offset =
                     IF solo = <<>> THEN l.passStart
                     ELSE solo[Len(solo)][Len(solo[Len(solo)])]

\* C31: a step of a sync pass changes the directory and the backend state
\* of its own run only, and in every interleaving of the passes of two
\* runs each pass sends, under the uuid of its run, the batches it sends
\* when it runs alone and leaves the offset it leaves when it runs alone
C31_RunsIndependent ==
    /\ [][/\ \A p \in Paths : p # path' => fs'[p] = fs[p]
          /\ \A u \in ServerIds : u # path'[2] => applied'[u] = applied[u]]_vars
    /\ [](AsAlone(Locals) /\ AsAlone(other))

\* C31 witness: both passes are under way, each after a call of its own,
\* and the offsets the two runs started from differ
C31_Witness ==
    /\ pc \in {"sync_loop", "sync_execute", "sync_write"}
    /\ other.pc \in {"sync_loop", "sync_execute", "sync_write"}
    /\ passCalls # <<>>
    /\ other.passCalls # <<>>
    /\ path # other.path
    /\ passStart # other.passStart

\* C32: with appends interleaved with a sync pass, the versions the pass
\* sends are strictly increasing, the persisted offset is at most the
\* highest version appended, and a record appended after the pass read an
\* empty batch changes neither the offset nor what the backend applied: it
\* is above the offset, not applied, and the run is not synchronized
C32_AppendsDuringPass ==
    /\ [](StrictlyIncreasing(PassSent))
    /\ [](fs[TheRun].offset # None => fs[TheRun].offset <= LastVersion(fs[TheRun].queue))
    /\ []((pc = "idle" /\ lastEnd = "completed") =>
            \A i \in 1..Len(fs[TheRun].queue) :
                fs[TheRun].queue[i].version \in applied[TheRun[2]]
                    <=> (fs[TheRun].offset # None
                         /\ fs[TheRun].queue[i].version <= fs[TheRun].offset))
    /\ [][(pc = "idle" /\ lastEnd = "completed"
             /\ fs'[TheRun].queue # fs[TheRun].queue) =>
            /\ fs'[TheRun].offset = fs[TheRun].offset
            /\ applied' = applied
            /\ LastVersion(fs'[TheRun].queue) > ReadOrZero(fs'[TheRun])
            /\ ~is_experiment_synced(fs'[TheRun])]_vars

\* C32 witness: the first batch the pass read was short, so what it sent
\* afterwards was appended while it ran; it completed, and a record
\* appended since then is above the offset
C32_Witness ==
    /\ pc = "idle"
    /\ lastEnd = "completed"
    /\ Len(passCalls) >= 2
    /\ Len(passCalls[1].versions) < BatchSize
    /\ fs[TheRun].offset # None
    /\ LastVersion(fs[TheRun].queue) > fs[TheRun].offset

\* C33 as stated: once sync_experiment has returned normally on a run
\* nothing is appended to, is_experiment_synced returns true for the run,
\* whatever queue and offset the pass started from
C33_SyncedAfterSync ==
    (pc = "idle" /\ lastEnd = "completed") => is_experiment_synced(fs[TheRun])

\* C34 as stated: in one invocation create_experiment is called at most
\* once for each offline run, and when the invocation has ended the runs
\* it created on the server are not more than the directories it moved
C34_CreateOncePerRun ==
    mode = "selected" =>
        /\ \A u \in OfflineIds : createCalls[u] <= 1
        /\ pc = "idle" =>
             Cardinality(created \ {TheRun[2]})
                <= Cardinality({u \in OfflineIds : moved[u] # Absent})

\* C35 as stated: on a location without offline directory,
\* sync_all_experiments and --list end without an exception, with no
\* offline run found
C35_MissingOfflineDirectory ==
    (mode \in {"all", "list"} /\ pc = "idle"
        /\ ~fs[RegisteredPath(OFFLINE_DIRECTORY)].exists) =>
        /\ uncaught = NoException
        /\ offline_experiment_ids = <<>>

\* C36 as stated: a Run constructed with with_id and a custom run id, from
\* the argument or from NEPTUNE_CUSTOM_RUN_ID, raises
\* NeptuneRunResumeAndCustomIdCollision and is not initialized; a Run
\* resumed with with_id alone has no custom run id generated for it
C36_ResumeCustomIdCollision ==
    new_run.state # "none" =>
        /\ (/\ Truthy(init_args.with_id)
            /\ \/ Truthy(init_args.custom_run_id)
               \/ Truthy(init_args.env_custom_run_id)) =>
                /\ new_run.state = "raised"
                /\ new_run.exception = "NeptuneRunResumeAndCustomIdCollision"
        /\ (/\ Truthy(init_args.with_id)
            /\ ~Truthy(init_args.custom_run_id)
            /\ ~Truthy(init_args.env_custom_run_id)) =>
                /\ new_run.state = "initialized"
                /\ new_run.custom_id \notin GeneratedIds

=============================================================================
